---------------------------- MODULE Spec2Model ----------------------------
(***************************************************************************)
(* Model of the cea-live analytics backend: the SQLite-backed API server   *)
(* (server.js), its response cache (cache.js, cacheMiddleware.js) and its  *)
(* conditional-response layer (etagMiddleware.js).                         *)
(*                                                                         *)
(* Three specifications share the module:                                  *)
(*   SpecData  the read-only store and the /data and /analytics handlers;  *)
(*   SpecLRU   the LRUCache class driven through its public methods;       *)
(*   SpecHttp  GET/POST requests travelling through etagMiddleware,        *)
(*             cacheMiddleware and the route handlers, with a clock.       *)
(***************************************************************************)
EXTENDS Integers, Sequences, FiniteSets, TLC

VARIABLES
    db,          \* rows of the transactions table, in the order a scan returns them
    out,         \* SpecData: the last request (or page walk) and what it was answered
    now,         \* Date.now(), in milliseconds
    steps,       \* number of calls and requests made so far
    lru,         \* SpecLRU: one LRUCache instance
    call,        \* SpecLRU: the last method call on lru, its result and what it found
    ref,         \* SpecLRU: per key, when it was last set and with which time-to-live,
                 \*          ordered from least to most recently used (get hit or set)
    apiCache,    \* SpecHttp: the pool of the light endpoints
    statsCache,  \* SpecHttp: the pool of the analytics endpoints
    http,        \* SpecHttp: the last request and the response sent for it
    issued,      \* SpecHttp: the entity-tags sent so far, per request target
    ledger,      \* SpecHttp: per cached key, the exchange that stored the entry
    agg,         \* the aggregate tables committed to the database file
    job,         \* SpecPrecompute: the pre-computation process
    planner,     \* the order in which SQLite emits rows that ORDER BY leaves tied
    fetch,       \* SpecFetch: one call of fetchDataGovSG and the datastore it asks
    hooks        \* SpecHooks: a mounted component, its hook and the requests in flight

dataVars == <<db, out>>

lruVars == <<now, steps, lru, call, ref>>

httpVars == <<apiCache, statsCache, http, issued, ledger>>

aggVars == <<agg, job, planner>>

clientVars == <<fetch, hooks>>

vars ==
    <<db, out, now, steps, lru, call, ref, apiCache, statsCache, http, issued, ledger,
      agg, job, planner, fetch, hooks>>

-----------------------------------------------------------------------------
(* Generic helpers *)

Min(a, b) == IF a < b THEN a ELSE b

Max(a, b) == IF a > b THEN a ELSE b

Range(s) == {s[i] : i \in DOMAIN s}

\* Math.ceil(a / b) of JavaScript numbers, for integers a and b # 0.
CeilDiv(a, b) == IF b > 0 THEN -((-a) \div b) ELSE -(a \div (-b))

\* All sequences over S of length at most n.
SeqsUpTo(S, n) == UNION {[1..k -> S] : k \in 0..n}

-----------------------------------------------------------------------------
(* The store: table transactions *)

\* SQL NULL. The loader stores null for a missing or empty source field.
Null == "<NULL>"

\* The dataset id stored in table metadata.
StoredId == "cea"

FilterKeys == {"property_type", "town"}

\* Row contents the bounded tables are built from: two property types, a town,
\* the sentinel '-' and a NULL column.
RowPool ==
    { [salesperson_reg_num |-> "R1", property_type |-> "HDB",    town |-> "PUNGGOL"],
      [salesperson_reg_num |-> "R2", property_type |-> "LANDED", town |-> "PUNGGOL"],
      [salesperson_reg_num |-> "R2", property_type |-> Null,     town |-> "-"] }

\* Scalar values a filter can name.
StrVals == {"HDB", "PUNGGOL", "-"}

\* Fixed total order on column values (stands for SQLite's text collation).
ValOrder == <<"-", "HDB", "LANDED", "PUNGGOL", "Unknown", Null>>

ValRank(v) == CHOOSE i \in DOMAIN ValOrder : ValOrder[i] = v

MaxRows == 2

\* Largest page size of /data.
MaxLimit == 500

\* id INTEGER PRIMARY KEY AUTOINCREMENT: the i-th inserted row has id i.
WithIds(contents) ==
    [i \in DOMAIN contents |->
        [id |-> i,
         salesperson_reg_num |-> contents[i].salesperson_reg_num,
         property_type |-> contents[i].property_type,
         town |-> contents[i].town]]

SmallTables == {WithIds(c) : c \in SeqsUpTo(RowPool, MaxRows)}

\* A table with one row more than the largest page.
BigTable ==
    WithIds([i \in 1..(MaxLimit + 1) |->
        IF i % 3 = 0
        THEN [salesperson_reg_num |-> "R2", property_type |-> "LANDED", town |-> "PUNGGOL"]
        ELSE [salesperson_reg_num |-> "R1", property_type |-> "HDB", town |-> "PUNGGOL"]])

Tables == SmallTables \cup {BigTable}

-----------------------------------------------------------------------------
(* Query-string parameters *)

\* A numeric query parameter as the client wrote it.
Absent == [kind |-> "absent"]

NonNumeric == [kind |-> "text"]

Num(n) == [kind |-> "num", n |-> n]

IsNaN(p) == p.kind # "num"

\* parseInt(x) || dflt : NaN and 0 are falsy.
ParseIntOr(p, dflt) == IF IsNaN(p) \/ p.n = 0 THEN dflt ELSE p.n

\* The filters parameter: absent, the empty string, a string that is not JSON,
\* or the JSON text of an object.
FiltersAbsent == [kind |-> "absent"]

FiltersEmpty == [kind |-> "empty"]

FiltersMalformed == [kind |-> "malformed"]

FiltersJson(obj) == [kind |-> "json", obj |-> obj]

Scalar(v) == [kind |-> "scalar", val |-> v]

Array(vs) == [kind |-> "array", vals |-> vs]

\* Filter values: scalar strings, and arrays that are empty, singleton or a
\* disjunction of two stored values.
FilterValues ==
    {Scalar(v) : v \in StrVals}
        \cup {Array(<<>>), Array(<<"HDB">>), Array(<<"HDB", "LANDED">>),
              Array(<<"PUNGGOL", "-">>)}

\* Filter objects: a value for each key of a subset of the filterable columns.
FilterObjects == UNION {[K -> FilterValues] : K \in SUBSET FilterKeys}

FiltersParams ==
    {FiltersAbsent, FiltersEmpty, FiltersMalformed} \cup {FiltersJson(F) : F \in FilterObjects}

\* A query value is truthy when it is a non-empty string.
Truthy(p) == p.kind \notin {"absent", "empty"} /\ ~(p.kind = "str" /\ p.s = "")

NoFilters == [kind |-> "null"]

ParseError == [kind |-> "parseError"]

\* Variant of ParseFilters that takes a string that is not JSON for no filter.
ParseFiltersLenient(fs) ==
    IF fs.kind = "json" THEN [kind |-> "object", obj |-> fs.obj] ELSE NoFilters

\* parseFilters(filtersString)
ParseFilters(fs) ==
    IF ~Truthy(fs) THEN NoFilters
    ELSE IF fs.kind = "json" THEN [kind |-> "object", obj |-> fs.obj]
    ELSE ParseError

-----------------------------------------------------------------------------
(* WHERE clause built from the filter keys, evaluated by SQLite *)

\* key = ? : NULL = x is NULL, which WHERE treats as false.
SqlEq(colVal, v) == colVal # Null /\ colVal = v

\* key IN (?, ...) : an empty list is false; NULL IN (...) is NULL.
SqlIn(colVal, vs) == colVal # Null /\ \E i \in DOMAIN vs : colVal = vs[i]

\* Variant of WhereHolds joining the clauses with OR.
WhereHoldsAnyKey(row, obj) ==
    \E k \in DOMAIN obj :
        IF obj[k].kind = "array"
        THEN SqlIn(row[k], obj[k].vals)
        ELSE SqlEq(row[k], obj[k].val)

\* whereClauses.join(' AND ')
WhereHolds(row, obj) ==
    \A k \in DOMAIN obj :
        IF obj[k].kind = "array"
        THEN SqlIn(row[k], obj[k].vals)
        ELSE SqlEq(row[k], obj[k].val)

\* parsedFilters && Object.keys(parsedFilters).length > 0
HasWhere(parsed) == parsed.kind = "object" /\ DOMAIN parsed.obj # {}

\* The columns of transactions.
TxColumns ==
    {"id", "salesperson_name", "transaction_date", "salesperson_reg_num", "property_type",
     "transaction_type", "represented", "town", "district", "general_location"}

\* A filter key that is not a column makes the statement fail to prepare
\* ("no such column"), which the handler's catch answers.
UnknownColumn(parsed) == HasWhere(parsed) /\ ~(DOMAIN parsed.obj \subseteq TxColumns)

\* The rows a statement over transactions sees, in scan order.
Matching(table, parsed) ==
    IF HasWhere(parsed)
    THEN SelectSeq(table, LAMBDA r : WhereHolds(r, parsed.obj))
    ELSE table

\* Variant of SqlLimitOffset that skips one row too few after the first page.
SqlLimitOffsetOverlap(rows, limit, offset) ==
    LET off == Max(offset - 1, 0)
        lim == IF limit < 0 THEN Len(rows) ELSE limit
    IN  SubSeq(rows, off + 1, Min(off + lim, Len(rows)))

\* LIMIT ? OFFSET ? : a negative LIMIT is no limit, a negative OFFSET is 0.
SqlLimitOffset(rows, limit, offset) ==
    LET off == Max(offset, 0)
        lim == IF limit < 0 THEN Len(rows) ELSE limit
    IN  SubSeq(rows, off + 1, Min(off + lim, Len(rows)))

-----------------------------------------------------------------------------
(* GET /api/datasets/:id/data *)

DefaultLimit == 50

DataHandler(table, q) ==
    LET page == ParseIntOr(q.page, 1)
        limit == Min(ParseIntOr(q.limit, DefaultLimit), MaxLimit)
        offset == (page - 1) * limit
        parsed == ParseFilters(q.filters)
    IN  IF parsed = ParseError
        THEN [status |-> 400, body |-> [error |-> "Invalid filters format"]]
        ELSE IF UnknownColumn(parsed)
        THEN [status |-> 500, body |-> [error |-> "Failed to load dataset data"]]
        ELSE LET rows == Matching(table, parsed)
                 total == Len(rows)
             IN  [status |-> 200,
                  body |-> [data |-> SqlLimitOffset(rows, limit, offset),
                            pagination |-> [page |-> page,
                                            limit |-> limit,
                                            total |-> total,
                                            totalPages |-> CeilDiv(total, limit)]]]

-----------------------------------------------------------------------------
(* GET /api/datasets/:id/analytics *)

DimAbsent == "<absent>"

Columns == {"id", "salesperson_reg_num", "property_type", "town"}

\* COALESCE(dim, 'Unknown')
Coalesce(v) == IF v = Null THEN "Unknown" ELSE v

\* The group a row falls into: one value, or a pair under dimension2.
GroupOf(row, dims) == [i \in DOMAIN dims |-> Coalesce(row[dims[i]])]

CountOf(rows, dims, g) == Cardinality({i \in DOMAIN rows : GroupOf(rows[i], dims) = g})

\* g sorts before h: ORDER BY count DESC, equal counts in the order the
\* GROUP BY pass emits them (ascending group values).
RECURSIVE LexLess(_, _)
LexLess(g, h) ==
    IF g = <<>> \/ h = <<>> THEN FALSE
    ELSE IF Head(g) # Head(h) THEN ValRank(Head(g)) < ValRank(Head(h))
    ELSE LexLess(Tail(g), Tail(h))

GroupBefore(rows, dims, g, h) ==
    LET cg == CountOf(rows, dims, g)
        ch == CountOf(rows, dims, h)
    IN  cg > ch \/ (cg = ch /\ LexLess(g, h))

RECURSIVE SortGroups(_, _, _)
SortGroups(rows, dims, G) ==
    IF G = {} THEN <<>>
    ELSE LET g == CHOOSE x \in G : \A y \in G \ {x} : GroupBefore(rows, dims, x, y)
         IN  <<g>> \o SortGroups(rows, dims, G \ {g})

\* SELECT COALESCE(d, 'Unknown') ..., COUNT(*) as count ... GROUP BY ... ORDER BY count DESC
GroupCounts(rows, dims) ==
    LET G == {GroupOf(rows[i], dims) : i \in DOMAIN rows}
        order == SortGroups(rows, dims, G)
    IN  [i \in DOMAIN order |-> [group |-> order[i], count |-> CountOf(rows, dims, order[i])]]

AnalyticsHandler(table, q) ==
    LET parsed == ParseFilters(q.filters)
        dims == IF q.dimension2 # DimAbsent
                THEN <<q.dimension1, q.dimension2>> ELSE <<q.dimension1>>
    IN  IF q.dimension1 = DimAbsent
        THEN [status |-> 400, body |-> [error |-> "dimension1 parameter is required"]]
        ELSE IF parsed = ParseError
        THEN [status |-> 400, body |-> [error |-> "Invalid filters format"]]
        ELSE IF Range(dims) \subseteq Columns /\ ~UnknownColumn(parsed)
        THEN LET rows == Matching(table, parsed)
                 results == GroupCounts(rows, dims)
             IN  [status |-> 200,
                  body |-> [dimensions |-> dims,
                            data |-> results,
                            chartData |->
                                IF q.dimension2 # DimAbsent THEN results
                                ELSE [i \in DOMAIN results |->
                                        [name |-> results[i].group[1],
                                         value |-> results[i].count]],
                            total |-> Len(rows)]]
        ELSE [status |-> 500, body |-> [error |-> "Failed to calculate analytics"]]

-----------------------------------------------------------------------------
(* Request targets and cache keys *)

Pair(name, value) == [name |-> name, value |-> value]

Str(s) == [kind |-> "str", s |-> s]

RECURSIVE Join(_, _)
Join(strs, sep) ==
    IF strs = <<>> THEN ""
    ELSE IF Len(strs) = 1 THEN strs[1]
    ELSE strs[1] \o sep \o Join(Tail(strs), sep)

Quoted(s) == "\"" \o s \o "\""

\* JSON text of a filter value and of a filter object (keys in a fixed order).
JsonValue(v) ==
    IF v.kind = "array"
    THEN "[" \o Join([i \in DOMAIN v.vals |-> Quoted(v.vals[i])], ",") \o "]"
    ELSE Quoted(v.val)

JsonObject(obj) ==
    LET keys == SelectSeq(<<"property_type", "town">>, LAMBDA k : k \in DOMAIN obj)
    IN  "{" \o Join([i \in DOMAIN keys |-> Quoted(keys[i]) \o ":" \o JsonValue(obj[keys[i]])], ",")
            \o "}"

\* The text of a query value as the client wrote it.
ValueText(v) ==
    CASE v.kind = "num" -> ToString(v.n)
      [] v.kind = "text" -> "abc"
      [] v.kind = "str" -> v.s
      [] v.kind = "empty" -> ""
      [] v.kind = "malformed" -> "{oops"
      [] v.kind = "json" -> JsonObject(v.obj)

\* req.path
PathText(path) == "/" \o Join(path, "/")

\* req.originalUrl: the path and the query pairs in the order the client wrote them.
OriginalUrl(path, query) ==
    IF query = <<>> THEN PathText(path)
    ELSE PathText(path) \o "?"
            \o Join([i \in DOMAIN query |-> query[i].name \o "=" \o ValueText(query[i].value)], "&")

\* A request: method, target and the If-None-Match header (or NoTag).
Request(method, path, query, inm) ==
    [method |-> method, path |-> path, pairs |-> query,
     originalUrl |-> OriginalUrl(path, query), ifNoneMatch |-> inm]

\* req.query[name]
QueryParam(req, name) ==
    IF \E i \in DOMAIN req.pairs : req.pairs[i].name = name
    THEN req.pairs[CHOOSE i \in DOMAIN req.pairs : req.pairs[i].name = name].value
    ELSE Absent

\* getCacheKey(req): `${req.method}:${url}`
GetCacheKey(req) == req.method \o ":" \o req.originalUrl

\* String.prototype.includes
Includes(s, sub) ==
    \E i \in 1..(Len(s) - Len(sub) + 1) : SubSeq(s, i, i + Len(sub) - 1) = sub

\* key.includes(`/api/datasets/${datasetId}`)
KeyIncludesDataset(key, datasetId) == Includes(key, "/api/datasets/" \o datasetId)

-----------------------------------------------------------------------------
(* class LRUCache *)

\* The Map this.cache is a sequence of entries in insertion order.
NewLRU(name, maxSize, ttl) ==
    [name |-> name, cache |-> <<>>, maxSize |-> maxSize, ttl |-> ttl, hits |-> 0, misses |-> 0]

ApiMaxSize == 200

ApiTTL == 10 * 60 * 1000

StatsMaxSize == 50

StatsTTL == 30 * 60 * 1000

\* What get returns for a miss.
NoValue == [kind |-> "null"]

Keys(c) == {c.cache[i].key : i \in DOMAIN c.cache}

Has(c, key) == \E i \in DOMAIN c.cache : c.cache[i].key = key

IndexOf(c, key) == CHOOSE i \in DOMAIN c.cache : c.cache[i].key = key

\* Map.delete(key)
MapDelete(cache, key) == SelectSeq(cache, LAMBDA e : e.key # key)

\* Map.set(key, item): an existing key keeps its position, a new one goes last.
MapSet(cache, key, item) ==
    IF \E i \in DOMAIN cache : cache[i].key = key
    THEN [i \in DOMAIN cache |-> IF cache[i].key = key THEN item ELSE cache[i]]
    ELSE Append(cache, item)

\* get(key) at time t: the pool afterwards and the value returned.
LRUGet(c, key, t) ==
    IF ~Has(c, key)
    THEN [pool |-> [c EXCEPT !.misses = @ + 1], value |-> NoValue]
    ELSE LET item == c.cache[IndexOf(c, key)]
         IN  IF t > item.expiry
             THEN [pool |-> [c EXCEPT !.cache = MapDelete(@, key), !.misses = @ + 1],
                   value |-> NoValue]
             ELSE [pool |-> [c EXCEPT !.cache = MapSet(MapDelete(@, key), key, item),
                                      !.hits = @ + 1],
                   value |-> item.value]

NoTTL == [given |-> FALSE]

TTLms(n) == [given |-> TRUE, ms |-> n]

\* customTTL || this.ttl : undefined and 0 are falsy.
EffectiveTTL(c, customTTL) ==
    IF customTTL.given /\ customTTL.ms # 0 THEN customTTL.ms ELSE c.ttl

\* Variant of LRUSet that never evicts.
LRUSetNoEvict(c, key, value, customTTL, t) ==
    [c EXCEPT !.cache =
        MapSet(@, key, [key |-> key, value |-> value, expiry |-> t + EffectiveTTL(c, customTTL)])]

\* Variant of LRUSet whose entries expire at once.
LRUSetNoTTL(c, key, value, customTTL, t) ==
    LET kept == IF Len(c.cache) >= c.maxSize /\ ~Has(c, key) /\ c.cache # <<>>
                THEN MapDelete(c.cache, c.cache[1].key)
                ELSE c.cache
    IN  [c EXCEPT !.cache = MapSet(kept, key, [key |-> key, value |-> value, expiry |-> t])]

\* Variant of LRUSet that evicts from a full pool also for a key it holds.
LRUSetEvictsWhenFull(c, key, value, customTTL, t) ==
    LET kept == IF Len(c.cache) >= c.maxSize /\ c.cache # <<>>
                THEN MapDelete(c.cache, c.cache[1].key)
                ELSE c.cache
    IN  [c EXCEPT !.cache =
            MapSet(kept, key,
                   [key |-> key, value |-> value, expiry |-> t + EffectiveTTL(c, customTTL)])]

\* set(key, value, customTTL) at time t
LRUSet(c, key, value, customTTL, t) ==
    LET kept == IF Len(c.cache) >= c.maxSize /\ ~Has(c, key) /\ c.cache # <<>>
                THEN MapDelete(c.cache, c.cache[1].key)
                ELSE c.cache
    IN  [c EXCEPT !.cache =
            MapSet(kept, key,
                   [key |-> key, value |-> value, expiry |-> t + EffectiveTTL(c, customTTL)])]

\* delete(key): the pool afterwards and whether the key was there.
LRUDelete(c, key) == [pool |-> [c EXCEPT !.cache = MapDelete(@, key)], value |-> Has(c, key)]

\* clear()
LRUClear(c) == [c EXCEPT !.cache = <<>>, !.hits = 0, !.misses = 0]

\* Variant of LRUInvalidateDataset that drops the entries of every dataset.
LRUInvalidateAnyDataset(c, datasetId) ==
    LET kept == SelectSeq(c.cache, LAMBDA e : ~Includes(e.key, "/api/datasets"))
    IN  [pool |-> [c EXCEPT !.cache = kept], value |-> Len(c.cache) - Len(kept)]

\* invalidateDataset(datasetId): the pool afterwards and the number of entries removed.
LRUInvalidateDataset(c, datasetId) ==
    LET kept == SelectSeq(c.cache, LAMBDA e : ~KeyIncludesDataset(e.key, datasetId))
    IN  [pool |-> [c EXCEPT !.cache = kept], value |-> Len(c.cache) - Len(kept)]

\* (this.hits / total * 100).toFixed(1), in tenths of a percent; 0 when total is 0.
HitRateTenths(c) ==
    LET total == c.hits + c.misses
    IN  IF total > 0 THEN (c.hits * 2000 + total) \div (2 * total) ELSE 0

\* stats()
LRUStats(c) ==
    [size |-> Len(c.cache), maxSize |-> c.maxSize, hits |-> c.hits, misses |-> c.misses,
     hitRate |-> HitRateTenths(c), ttl |-> c.ttl \div 1000]

-----------------------------------------------------------------------------
(* SpecLRU: one LRUCache instance driven through its public methods *)

DataPath(id) == <<"api", "datasets", id, "data">>

NoTag == [kind |-> "none"]

\* Distinct cacheable requests: GET /api/datasets/cea/data?_=i
FillerRequest(i) == Request("GET", DataPath("cea"), <<Pair("_", Num(i))>>, NoTag)

FillerKey(i) == GetCacheKey(FillerRequest(i))

HealthKey == GetCacheKey(Request("GET", <<"health">>, <<>>, NoTag))

OtherDataKey == GetCacheKey(Request("GET", DataPath("cea2"), <<>>, NoTag))

\* The keys the calls of SpecLRU name: the oldest entry of a filled pool, and
\* two keys a filled pool does not hold.
TouchKeys == {FillerKey(1), HealthKey, OtherDataKey}

LruValues == {[body |-> "v1"], [body |-> "v2"]}

\* customTTL arguments: omitted, 0 and one millisecond.
TTLArgs == {NoTTL, TTLms(0), TTLms(1)}

DatasetIds == {"cea", "cea2"}

\* A pool filled to capacity at time t by maxSize set calls with distinct keys.
Filled(c, t, value) ==
    [c EXCEPT !.cache = [i \in 1..c.maxSize |->
                            [key |-> FillerKey(i), value |-> value, expiry |-> t + c.ttl]]]

RefOfFilled(c, t) == [i \in 1..c.maxSize |-> [key |-> FillerKey(i), setAt |-> t, ttl |-> c.ttl]]

MaxSteps == 3

NoKey == "<none>"

NoCall == [op |-> "none"]

\* The record of a call: arguments, result, and what the pool held before it.
Call(op, key, arg, result, pre, post, preRef, t) ==
    [op |-> op, key |-> key, arg |-> arg, result |-> result, at |-> t,
     preSize |-> Len(pre.cache),
     preHas |-> Has(pre, key),
     preHits |-> pre.hits,
     preMisses |-> pre.misses,
     lruKey |-> IF preRef = <<>> THEN NoKey ELSE preRef[1].key,
     deadline |-> IF \E i \in DOMAIN preRef : preRef[i].key = key
                  THEN LET g == preRef[CHOOSE i \in DOMAIN preRef : preRef[i].key = key]
                       IN  g.setAt + g.ttl
                  ELSE -1,
     removed |-> Keys(pre) \ Keys(post)]

\* ref after a call: a used key moves to the end, removed keys leave.
RefDrop(r, removed) == IF removed = {} THEN r ELSE SelectSeq(r, LAMBDA g : g.key \notin removed)

RefUse(r, key) ==
    SelectSeq(r, LAMBDA g : g.key # key) \o SelectSeq(r, LAMBDA g : g.key = key)

RefSet(r, key, t, ttl) ==
    Append(SelectSeq(r, LAMBDA g : g.key # key), [key |-> key, setAt |-> t, ttl |-> ttl])

LruIdle ==
    /\ now = 0
    /\ steps = 0
    /\ lru = NewLRU("api", ApiMaxSize, ApiTTL)
    /\ call = NoCall
    /\ ref = <<>>

DataIdle ==
    /\ db = <<>>
    /\ out = [route |-> "none"]

HttpIdle ==
    /\ apiCache = NewLRU("api", ApiMaxSize, ApiTTL)
    /\ statsCache = NewLRU("stats", StatsMaxSize, StatsTTL)
    /\ http = [kind |-> "none"]
    /\ issued = {}
    /\ ledger = {}

\* No aggregate table, no pre-computation under way.
NoTables == [t \in {} |-> <<>>]

AggIdle ==
    /\ agg = NoTables
    /\ job = [pc |-> "none"]
    /\ planner = "forward"

\* No fetch under way, no component mounted.
ClientIdle ==
    /\ fetch = [pc |-> "none"]
    /\ hooks = [pc |-> "none"]

InitLRU ==
    /\ now = 0
    /\ steps = 0
    /\ \E c \in {NewLRU("api", ApiMaxSize, ApiTTL), NewLRU("stats", StatsMaxSize, StatsTTL)} :
          \/ c.name = "stats" /\ lru = c /\ ref = <<>>
          \/ lru = Filled(c, 0, [body |-> "v1"]) /\ ref = RefOfFilled(c, 0)
    /\ call = NoCall
    /\ DataIdle
    /\ HttpIdle
    /\ ClientIdle
    /\ AggIdle

CallGet ==
    \E key \in TouchKeys :
        LET r == LRUGet(lru, key, now)
        IN  /\ steps < MaxSteps
            /\ steps' = steps + 1
            /\ lru' = r.pool
            /\ call' = Call("get", key, NoTTL, r.value, lru, r.pool, ref, now)
            /\ ref' = RefDrop(IF r.value # NoValue THEN RefUse(ref, key) ELSE ref,
                              Keys(lru) \ Keys(r.pool))
            /\ UNCHANGED <<now, dataVars, httpVars, clientVars, aggVars>>

CallSet ==
    \E key \in TouchKeys, value \in LruValues, customTTL \in TTLArgs :
        LET post == LRUSet(lru, key, value, customTTL, now)
        IN  /\ steps < MaxSteps
            /\ steps' = steps + 1
            /\ lru' = post
            /\ call' = Call("set", key, customTTL, value, lru, post, ref, now)
            /\ ref' = RefDrop(RefSet(ref, key, now,
                                     IF customTTL.given THEN customTTL.ms ELSE lru.ttl),
                              Keys(lru) \ Keys(post))
            /\ UNCHANGED <<now, dataVars, httpVars, clientVars, aggVars>>

CallDelete ==
    \E key \in TouchKeys :
        LET r == LRUDelete(lru, key)
        IN  /\ steps < MaxSteps
            /\ steps' = steps + 1
            /\ lru' = r.pool
            /\ call' = Call("delete", key, NoTTL, [found |-> r.value], lru, r.pool, ref, now)
            /\ ref' = RefDrop(ref, Keys(lru) \ Keys(r.pool))
            /\ UNCHANGED <<now, dataVars, httpVars, clientVars, aggVars>>

CallClear ==
    /\ steps < MaxSteps
    /\ steps' = steps + 1
    /\ lru' = LRUClear(lru)
    /\ call' = Call("clear", NoKey, NoTTL, NoValue, lru, LRUClear(lru), ref, now)
    /\ ref' = <<>>
    /\ UNCHANGED <<now, dataVars, httpVars, clientVars, aggVars>>

CallInvalidateDataset ==
    \E id \in DatasetIds :
        LET r == LRUInvalidateDataset(lru, id)
        IN  /\ steps < MaxSteps
            /\ steps' = steps + 1
            /\ lru' = r.pool
            /\ call' = Call("invalidateDataset", NoKey, Str(id), [count |-> r.value],
                            lru, r.pool, ref, now)
            /\ ref' = RefDrop(ref, Keys(lru) \ Keys(r.pool))
            /\ UNCHANGED <<now, dataVars, httpVars, clientVars, aggVars>>

\* Time passes: one millisecond, or the pool's time-to-live.
TickLRU ==
    \E d \in {1, lru.ttl} :
        /\ steps < MaxSteps
        /\ steps' = steps + 1
        /\ now' = now + d
        /\ UNCHANGED <<lru, call, ref, dataVars, httpVars, clientVars, aggVars>>

NextLRU ==
    CallGet \/ CallSet \/ CallDelete \/ CallClear \/ CallInvalidateDataset \/ TickLRU

SpecLRU == InitLRU /\ [][NextLRU]_vars

-----------------------------------------------------------------------------
(* Properties of LRUCache *)

C4_SetEvictsLeastRecentlyUsed ==
    (call.op = "set" /\ ~call.preHas /\ call.preSize >= lru.maxSize)
        => call.removed = {call.lruKey}

\* C5: a get of a key whose time-to-live has elapsed since its last set (the
\* pool's, or the custom one passed to set) returns nothing, removes the entry
\* and counts a miss, not a hit.
C5_ExpiredNeverReturned ==
    (call.op = "get" /\ call.deadline >= 0 /\ call.at > call.deadline)
        => /\ call.result = NoValue
           /\ ~Has(lru, call.key)
           /\ lru.misses = call.preMisses + 1
           /\ lru.hits = call.preHits

-----------------------------------------------------------------------------
(* SpecData: a client sending one request at a time to a store that never  *)
(* changes; out holds the exchange until the client has read it.           *)

PageParams == {Absent, NonNumeric, Num(0), Num(-1), Num(1), Num(2)}

LimitParams == {Absent, NonNumeric, Num(0), Num(-1), Num(1), Num(2), Num(MaxLimit + 1)}

DimParams == {DimAbsent, "property_type", "town", "no_such_column"}

\* Page sizes of a page walk.
WalkLimits == {1, 2, 3, MaxLimit}

MaxPages == 3

Idle == [route |-> "none"]

InitData ==
    /\ db \in Tables
    /\ out = Idle
    /\ LruIdle
    /\ HttpIdle
    /\ ClientIdle
    /\ AggIdle

GetData ==
    \E page \in PageParams, limit \in LimitParams, fs \in FiltersParams :
        LET q == [page |-> page, limit |-> limit, filters |-> fs]
        IN  /\ out = Idle
            /\ out' = [route |-> "data", query |-> q, res |-> DataHandler(db, q)]
            /\ UNCHANGED <<db, lruVars, httpVars, clientVars, aggVars>>

GetAnalytics ==
    \E d1 \in DimParams, d2 \in DimParams \ {"property_type"}, fs \in FiltersParams :
        LET q == [dimension1 |-> d1, dimension2 |-> d2, filters |-> fs]
        IN  /\ out = Idle
            /\ out' = [route |-> "analytics", query |-> q, res |-> AnalyticsHandler(db, q)]
            /\ UNCHANGED <<db, lruVars, httpVars, clientVars, aggVars>>

\* A client reads page 1, learns total, and reads every page 1 .. ceil(total / L).
PageWalk ==
    \E L \in WalkLimits, fs \in FiltersParams :
        LET Get(p) == DataHandler(db, [page |-> Num(p), limit |-> Num(L), filters |-> fs])
            first == Get(1)
        IN  /\ out = Idle
            /\ first.status = 200
            /\ LET n == CeilDiv(first.body.pagination.total, L)
               IN  /\ n <= MaxPages
                   /\ out' = [route |-> "walk", limit |-> L, filters |-> fs,
                              total |-> first.body.pagination.total,
                              pages |-> [p \in 1..n |-> Get(p).body.data]]
            /\ UNCHANGED <<db, lruVars, httpVars, clientVars, aggVars>>

\* The client has read the response.
ReadResponse ==
    /\ out # Idle
    /\ out' = Idle
    /\ UNCHANGED <<db, lruVars, httpVars, clientVars, aggVars>>

NextData == GetData \/ GetAnalytics \/ PageWalk \/ ReadResponse

SpecData == InitData /\ [][NextData]_vars

-----------------------------------------------------------------------------
(* Properties of the /data and /analytics handlers *)

\* The filter object a filters parameter denotes; absent and empty denote {}.
FilterOf(fs) == IF fs.kind = "json" THEN fs.obj ELSE [k \in {} |-> Scalar("")]

\* Row r satisfies F: every scalar key equal, every array key a member.
Satisfies(r, F) ==
    \A k \in DOMAIN F :
        IF F[k].kind = "array" THEN r[k] \in Range(F[k].vals) ELSE r[k] = F[k].val

SatisfyingRows(F) == {db[i] : i \in {j \in DOMAIN db : Satisfies(db[j], F)}}

ReturnedTotal == IF out.route = "data" THEN out.res.body.pagination.total ELSE out.res.body.total

\* C8: on /data and /analytics the returned total is the number of rows that
\* satisfy the filter (conjunction across keys, disjunction inside an array,
\* an empty array matches nothing, no filter matches every row).
C8_TotalCountsSatisfyingRows ==
    (out.route \in {"data", "analytics"} /\ out.res.status = 200)
        => ReturnedTotal = Cardinality(SatisfyingRows(FilterOf(out.query.filters)))

\* A /data answer to a filter with an array key and a scalar key that some
\* rows satisfy and some do not.
C8_Witness ==
    /\ out.route = "data"
    /\ out.res.status = 200
    /\ out.query.filters =
          FiltersJson([property_type |-> Array(<<"HDB", "LANDED">>), town |-> Scalar("PUNGGOL")])
    /\ out.res.body.pagination.total > 0
    /\ out.res.body.pagination.total < Len(db)

RECURSIVE Flatten(_)
Flatten(pages) == IF pages = <<>> THEN <<>> ELSE Head(pages) \o Flatten(Tail(pages))

\* C9: for a fixed filter and limit L in 1..500, the pages 1 .. ceil(total/L)
\* concatenated are exactly total rows: each row of the filtered table once.
C9_PagesPartitionFilteredRows ==
    out.route = "walk" =>
        LET all == Flatten(out.pages)
        IN  /\ Len(all) = out.total
            /\ Cardinality(Range(all)) = Len(all)
            /\ Range(all) = SatisfyingRows(FilterOf(out.filters))

\* A walk under a filter that needs two pages, the last one partly filled.
C9_Witness ==
    /\ out.route = "walk"
    /\ out.filters.kind = "json"
    /\ DOMAIN out.filters.obj # {}
    /\ Len(out.pages) = 2
    /\ Len(out.pages[2]) > 0
    /\ Len(out.pages[2]) < out.limit

\* C10: whatever page and limit are, a 2xx answer of /data holds at most 500 rows.
C10_AtMostMaxLimitRows ==
    (out.route = "data" /\ out.res.status \in 200..299)
        => Len(out.res.body.data) <= MaxLimit

-----------------------------------------------------------------------------
(* etagMiddleware, cacheMiddleware and the routes behind them *)

NoBody == [kind |-> "nobody"]

\* generateETag(body): the md5 digest of JSON.stringify(body), taken to be
\* collision-free: equal tags exactly for equal bodies.
GenerateETag(body) == [kind |-> "md5", of |-> body]

\* Variant of ETagJson that never answers 304.
ETagJsonUnconditional(req, status, body) ==
    [status |-> status, body |-> body, etag |-> GenerateETag(body)]

\* res.json as replaced by etagMiddleware: what goes out for (status, body).
ETagJson(req, status, body) ==
    LET etag == GenerateETag(body)
    IN  IF req.ifNoneMatch = etag
        THEN [status |-> 304, body |-> NoBody, etag |-> etag]
        ELSE [status |-> status, body |-> body, etag |-> etag]

\* etagMiddleware replaces res.json for GET requests only.
Send(req, status, body) ==
    IF req.method # "GET"
    THEN [status |-> status, body |-> body, etag |-> NoTag]
    ELSE ETagJson(req, status, body)

\* Variant of ShouldCache that looks at the method only.
ShouldCacheAnyQuery(req) == req.method = "GET"

\* shouldCache(req)
ShouldCache(req) ==
    IF Truthy(QueryParam(req, "filters")) \/ Truthy(QueryParam(req, "search"))
    THEN FALSE
    ELSE req.method = "GET"

StatsMarkers == <<"/stats", "/insights", "/analytics", "/timeseries", "/agents">>

\* selectCache(req): the name of the pool.
SelectCache(req) ==
    IF \E i \in DOMAIN StatsMarkers : Includes(PathText(req.path), StatsMarkers[i])
    THEN "stats" ELSE "api"

\* data/processed/datasets.json
DatasetsJson == [version |-> "1.0", datasets |-> <<[id |-> StoredId]>>]

\* GET /health: the body carries the time of the request.
HealthHandler(t) == [status |-> 200, body |-> [status |-> "ok", timestamp |-> t]]

\* GET /api/datasets
DatasetsHandler == [status |-> 200, body |-> DatasetsJson]

\* GET /api/datasets/:id
MetadataHandler(id) ==
    IF StoredId # id
    THEN [status |-> 404, body |-> [error |-> "Dataset not found"]]
    ELSE [status |-> 200,
          body |-> [id |-> StoredId, schema |-> [columns |-> <<>>, temporalColumn |-> Null]]]

\* getCacheStats
GetCacheStats(pools) ==
    [status |-> 200, body |-> [api |-> LRUStats(pools.api), stats |-> LRUStats(pools.stats)]]

NoDataset == "<undefined>"

\* clearCache: the response and the pools afterwards.
ClearCache(pools, datasetId) ==
    IF datasetId # NoDataset
    THEN LET a == LRUInvalidateDataset(pools.api, datasetId)
             b == LRUInvalidateDataset(pools.stats, datasetId)
         IN  [status |-> 200,
              body |-> [message |-> "Dataset cache cleared",
                        entriesCleared |-> a.value + b.value],
              pools |-> [api |-> a.pool, stats |-> b.pool]]
    ELSE [status |-> 200,
          body |-> [message |-> "All caches cleared"],
          pools |-> [api |-> LRUClear(pools.api), stats |-> LRUClear(pools.stats)]]

\* req.query.dimension1 / dimension2 as the analytics handler reads them.
DimOf(p) == IF p.kind = "str" /\ p.s # "" THEN p.s ELSE DimAbsent

\* A handler that leaves the pools alone.
Reply(h, pools) == [status |-> h.status, body |-> h.body, pools |-> pools]

\* The route table: the handler's status and body, and the pools afterwards.
Route(req, table, t, pools) ==
    LET p == req.path
        get == req.method = "GET"
        post == req.method = "POST"
    IN  CASE get /\ p = <<"health">> -> Reply(HealthHandler(t), pools)
          [] get /\ p = <<"api", "datasets">> -> Reply(DatasetsHandler, pools)
          [] get /\ p = <<"api", "cache", "stats">> -> Reply(GetCacheStats(pools), pools)
          [] get /\ Len(p) = 3 /\ p[1] = "api" /\ p[2] = "datasets" ->
                Reply(MetadataHandler(p[3]), pools)
          [] get /\ Len(p) = 4 /\ p[1] = "api" /\ p[2] = "datasets" /\ p[4] = "data" ->
                Reply(DataHandler(table, [page |-> QueryParam(req, "page"),
                                          limit |-> QueryParam(req, "limit"),
                                          filters |-> QueryParam(req, "filters")]), pools)
          [] get /\ Len(p) = 4 /\ p[1] = "api" /\ p[2] = "datasets" /\ p[4] = "analytics" ->
                Reply(AnalyticsHandler(table,
                        [dimension1 |-> DimOf(QueryParam(req, "dimension1")),
                         dimension2 |-> DimOf(QueryParam(req, "dimension2")),
                         filters |-> QueryParam(req, "filters")]), pools)
          [] post /\ p = <<"api", "cache", "clear">> -> ClearCache(pools, NoDataset)
          [] post /\ Len(p) = 4 /\ SubSeq(p, 1, 3) = <<"api", "cache", "clear">> ->
                ClearCache(pools, p[4])

\* next() when shouldCache(req) is false: the handler h has answered.
Uncached(req, h) ==
    [pools |-> h.pools, xcache |-> "none", handled |-> h.status,
     sent |-> Send(req, h.status, h.body)]

\* Variant of CacheMiss that stores the body whatever the status is.
CacheMissAnyStatus(req, which, key, t, h) ==
    [pools |-> [h.pools EXCEPT ![which] = LRUSet(@, key, h.body, NoTTL, t)],
     xcache |-> "MISS", handled |-> h.status,
     sent |-> Send(req, h.status, h.body)]

\* res.json as replaced by cacheMiddleware on a miss: the handler h has
\* answered; a 2xx body is stored before it goes on to the ETag layer.
CacheMiss(req, which, key, t, h) ==
    [pools |-> IF h.status >= 200 /\ h.status < 300
               THEN [h.pools EXCEPT ![which] = LRUSet(@, key, h.body, NoTTL, t)]
               ELSE h.pools,
     xcache |-> "MISS", handled |-> h.status,
     sent |-> Send(req, h.status, h.body)]

\* cacheMiddleware once cache.get(key) has answered cached.
CacheLookup(req, pools, table, t, which, key, cached) ==
    IF cached.value # NoValue
    THEN [pools |-> [pools EXCEPT ![which] = cached.pool], xcache |-> "HIT", handled |-> 0,
          sent |-> Send(req, 200, cached.value)]
    ELSE CacheMiss(req, which, key, t,
                   Route(req, table, t, [pools EXCEPT ![which] = cached.pool]))

\* One request through etagMiddleware, cacheMiddleware and its route at time t:
\* the pools afterwards, the X-Cache header, the handler's status (0 when the
\* handler did not run) and the response sent.
Exchange(req, pools, table, t) ==
    IF ~ShouldCache(req)
    THEN Uncached(req, Route(req, table, t, pools))
    ELSE CacheLookup(req, pools, table, t, SelectCache(req), GetCacheKey(req),
                     LRUGet(pools[SelectCache(req)], GetCacheKey(req), t))

-----------------------------------------------------------------------------
(* SpecHttp: clients sending GET and POST requests to the running server,  *)
(* one at a time, while the clock advances; the store never changes.       *)

HttpTable ==
    WithIds(<<[salesperson_reg_num |-> "R1", property_type |-> "HDB", town |-> "PUNGGOL"],
              [salesperson_reg_num |-> "R2", property_type |-> "LANDED", town |-> "PUNGGOL"]>>)

AnalyticsPath(id) == <<"api", "datasets", id, "analytics">>

Target(path, query) == [path |-> path, query |-> query]

\* The request targets of the GET requests.
GetTargets ==
    { Target(<<"health">>, <<>>),
      Target(<<"api", "datasets">>, <<>>),
      Target(<<"api", "datasets", "cea">>, <<>>),
      Target(<<"api", "datasets", "cea2">>, <<>>),
      Target(DataPath("cea"), <<Pair("page", Num(1)), Pair("limit", Num(1))>>),
      Target(DataPath("cea"), <<Pair("limit", Num(1)), Pair("page", Num(1))>>),
      Target(DataPath("cea"),
             <<Pair("filters", FiltersJson([k \in {"property_type"} |-> Scalar("HDB")]))>>),
      Target(AnalyticsPath("cea"), <<Pair("dimension1", Str("town"))>>),
      Target(AnalyticsPath("cea"),
             <<Pair("dimension1", Str("town")), Pair("search", Str("tan"))>>),
      Target(AnalyticsPath("cea"), <<>>),
      Target(AnalyticsPath("cea"), <<Pair("dimension1", Str("agency"))>>),
      Target(<<"api", "cache", "stats">>, <<>>) }

\* POST /api/cache/clear and POST /api/cache/clear/:datasetId
ClearTargets ==
    { Target(<<"api", "cache", "clear">>, <<>>),
      Target(<<"api", "cache", "clear", "cea">>, <<>>),
      Target(<<"api", "cache", "clear", "cea2">>, <<>>) }

\* Clock advances: to just before and just past the expiry of an apiCache
\* entry, and to just past the expiry of a statsCache entry.
TickSteps == {ApiTTL - 1, ApiTTL + 1, StatsTTL + 1}

NoPrior == [kind |-> "none"]

\* Two query strings with the same parameters, in any order.
SameParams(q1, q2) ==
    /\ Len(q1) = Len(q2)
    /\ \E f \in [DOMAIN q1 -> DOMAIN q2] :
            /\ \A i, j \in DOMAIN q1 : i # j => f[i] # f[j]
            /\ \A i \in DOMAIN q1 : q1[i] = q2[f[i]]

\* The exchange x of req against pools becomes the state: the pools, the
\* record of the exchange and the history.
Exchanged(req, pools, x) ==
    LET key == GetCacheKey(req)
        which == SelectCache(req)
        stores == x.xcache = "MISS" /\ x.handled >= 200 /\ x.handled < 300
    IN  /\ apiCache' = x.pools.api
        /\ statsCache' = x.pools.stats
        /\ http' = [kind |-> req.method, req |-> req, at |-> now,
                    status |-> x.sent.status, body |-> x.sent.body, etag |-> x.sent.etag,
                    xcache |-> x.xcache, handled |-> x.handled,
                    pool |-> which,
                    keyWasCached |-> Has(pools[which], key),
                    prior |-> IF \E l \in ledger : l.key = key
                              THEN CHOOSE l \in ledger : l.key = key
                              ELSE NoPrior,
                    sameParamsFresh |->
                        \E l \in ledger : /\ l.req.method = req.method
                                          /\ l.req.path = req.path
                                          /\ SameParams(l.req.pairs, req.pairs)
                                          /\ now <= l.at + pools[l.pool].ttl,
                    inmIssued |-> <<req.originalUrl, req.ifNoneMatch>> \in issued,
                    before |-> pools]
        /\ issued' = IF x.sent.etag # NoTag
                     THEN issued \cup {<<req.originalUrl, x.sent.etag>>}
                     ELSE issued
        /\ ledger' = {l \in ledger : Has(x.pools[l.pool], l.key) /\ ~(stores /\ l.key = key)}
                        \cup (IF stores
                              THEN {[key |-> key, pool |-> which, req |-> req, at |-> now,
                                     status |-> x.sent.status, body |-> x.sent.body]}
                              ELSE {})

\* The server handles req.
Serve(req) ==
    Exchanged(req, [api |-> apiCache, stats |-> statsCache],
              Exchange(req, [api |-> apiCache, stats |-> statsCache], db, now))

InitHttp ==
    /\ db = HttpTable
    /\ out = Idle
    /\ LruIdle
    /\ HttpIdle
    /\ ClientIdle
    /\ AggIdle

\* A GET request, with no validator or with one the server sent for this target.
HttpGet ==
    \E tg \in GetTargets :
        \E inm \in {NoTag} \cup {e[2] : e \in {i \in issued :
                                        i[1] = OriginalUrl(tg.path, tg.query)}} :
            /\ steps < MaxSteps
            /\ steps' = steps + 1
            /\ Serve(Request("GET", tg.path, tg.query, inm))
            /\ UNCHANGED <<now, lru, call, ref, dataVars, aggVars, clientVars>>

HttpPostClear ==
    \E tg \in ClearTargets :
        /\ steps < MaxSteps
        /\ steps' = steps + 1
        /\ Serve(Request("POST", tg.path, tg.query, NoTag))
        /\ UNCHANGED <<now, lru, call, ref, dataVars, aggVars, clientVars>>

TickHttp ==
    \E d \in TickSteps :
        /\ steps < MaxSteps
        /\ steps' = steps + 1
        /\ now' = now + d
        /\ UNCHANGED <<lru, call, ref, dataVars, httpVars, clientVars, aggVars>>

NextHttp == HttpGet \/ HttpPostClear \/ TickHttp

SpecHttp == InitHttp /\ [][NextHttp]_vars

-----------------------------------------------------------------------------
(* Properties of the HTTP layer *)

\* The request carries neither a non-empty filters nor a non-empty search.
Plain(req) == ~Truthy(QueryParam(req, "filters")) /\ ~Truthy(QueryParam(req, "search"))

PoolTTL(which) == IF which = "stats" THEN StatsTTL ELSE ApiTTL

\* C1: a plain GET whose key is not cached and whose handler answers 2xx is a
\* MISS; a later identical request, sent before the TTL has elapsed while the
\* entry stored by the first was neither evicted, cleared nor invalidated, is
\* a HIT that returns the body of the first response without running the
\* handler.
C1_MissThenHit ==
    (http.kind = "GET" /\ Plain(http.req)) =>
        /\ (~http.keyWasCached /\ http.handled >= 200 /\ http.handled < 300)
                => http.xcache = "MISS"
        /\ ( /\ http.prior # NoPrior
             /\ http.req = http.prior.req
             /\ http.at < http.prior.at + PoolTTL(http.pool) )
                => /\ http.xcache = "HIT"
                   /\ http.body = http.prior.body
                   /\ http.handled = 0

\* A second identical request, later than the first, served from the cache.
C1_Witness ==
    /\ http.kind = "GET"
    /\ Plain(http.req)
    /\ http.prior # NoPrior
    /\ http.req = http.prior.req
    /\ http.at > http.prior.at
    /\ http.at < http.prior.at + PoolTTL(http.pool)
    /\ http.xcache = "HIT"
    /\ http.body = http.prior.body
    /\ http.body # NoBody

\* /health and /api/cache/stats answer with a body that changes over time.
LiveBody(req) == req.path \in {<<"health">>, <<"api", "cache", "stats">>}

\* C2 as stated: a GET carrying an entity-tag the server sent earlier for the
\* same URL is answered 304 without a body, whatever the endpoint and whatever
\* happened in between.
C2_RevalidationAlways304 ==
    (http.kind = "GET" /\ http.inmIssued) => (http.status = 304 /\ http.body = NoBody)

\* C2 amended: the same for the endpoints whose body is a function of the URL
\* and the read-only store, that is every endpoint but /health and
\* /api/cache/stats.
C2_RevalidationOfStoreBacked304 ==
    (http.kind = "GET" /\ http.inmIssued /\ ~LiveBody(http.req))
        => (http.status = 304 /\ http.body = NoBody)

\* A revalidation answered 304 on the miss path, after the entry was dropped.
C2_Witness ==
    /\ http.kind = "GET"
    /\ http.inmIssued
    /\ ~LiveBody(http.req)
    /\ Plain(http.req)
    /\ http.xcache = "MISS"
    /\ http.handled = 200
    /\ http.status = 304
    /\ http.body = NoBody

\* C6: a GET with a non-empty filters or search parameter leaves both pools as
\* they were: entries, their order and expiry, and the hit and miss counters.
C6_FilteredRequestLeavesPools ==
    (http.kind = "GET" /\ ~Plain(http.req))
        => http.before = [api |-> apiCache, stats |-> statsCache]

\* A request with a search parameter answered while both pools hold entries.
C6_Witness ==
    /\ http.kind = "GET"
    /\ Truthy(QueryParam(http.req, "search"))
    /\ http.status = 200
    /\ http.before.api.cache # <<>>
    /\ http.before.stats.cache # <<>>
    /\ http.before = [api |-> apiCache, stats |-> statsCache]

\* C7: a plain GET whose path and parameters are those of a request with a
\* live cache entry, written in any order, is a hit.
C7_ParameterOrderIrrelevant ==
    (http.kind = "GET" /\ Plain(http.req) /\ http.sameParamsFresh) => http.xcache = "HIT"

-----------------------------------------------------------------------------
(* Text values as SQLite and JavaScript compare them *)

\* The characters of the stored values, in code-point order.
Alphabet == " -0123456789ABCDEFGHIJKLMNOPQRSTUVWXYZ_abcdefghijklmnopqrstuvwxyz"

CharRank(c) == CHOOSE i \in 1..Len(Alphabet) : SubSeq(Alphabet, i, i) = c

\* a < b under the BINARY collation (and under Array.prototype.sort's default).
RECURSIVE StrLess(_, _)
StrLess(a, b) ==
    IF b = "" THEN FALSE
    ELSE IF a = "" THEN TRUE
    ELSE IF Head(a) # Head(b) THEN CharRank(Head(a)) < CharRank(Head(b))
    ELSE StrLess(Tail(a), Tail(b))

\* a < b for column values: NULL sorts before every text.
SqlLess(a, b) ==
    IF b = Null THEN FALSE
    ELSE IF a = Null THEN TRUE
    ELSE StrLess(a, b)

\* Tuples of column values compared column by column.
RECURSIVE KeyLess(_, _)
KeyLess(g, h) ==
    IF g = <<>> \/ h = <<>> THEN FALSE
    ELSE IF Head(g) # Head(h) THEN SqlLess(Head(g), Head(h))
    ELSE KeyLess(Tail(g), Tail(h))

\* The elements of a finite set in the order given by a strict total order.
Sorted(S, Before(_, _)) ==
    [i \in 1..Cardinality(S) |->
        CHOOSE x \in S : Cardinality({y \in S : Before(y, x)}) = i - 1]

\* No ORDER BY of the program names a second key, and SQL leaves the order of
\* rows with equal keys to the engine.  Two engines stand for that choice:
\* one emits tied rows in ascending order of their group keys (what SQLite
\* 3.40 was seen to do on these statements), the other in descending order.
Planners == {"forward", "reverse"}

TieBefore(p, g, h) == IF p = "forward" THEN KeyLess(g, h) ELSE KeyLess(h, g)

-----------------------------------------------------------------------------
(* The transactions table with all its columns *)

TxRow(reg, name, date, ptype, ttype, rep, town) ==
    [salesperson_name |-> name, transaction_date |-> date, salesperson_reg_num |-> reg,
     property_type |-> ptype, transaction_type |-> ttype, represented |-> rep,
     town |-> town, district |-> "-", general_location |-> "-"]

\* Rows of two agents, one of them registered under two spellings of the name,
\* and rows whose registration number is the sentinel '-' or NULL.
TxRowPool ==
    { TxRow("R1", "ANN", "OCT-2017", "HDB", "RESALE", "BUYER", "PUNGGOL"),
      TxRow("R1", "ANNE", "JAN-2018", "LANDED", "RESALE", "SELLER", "-"),
      TxRow("R2", "BEN", "DEC-2017", "HDB", "NEW SALE", "BUYER", "PUNGGOL"),
      TxRow("-", "-", "-", Null, "RESALE", "SELLER", "-"),
      TxRow(Null, "CAT", Null, "HDB", Null, Null, "BEDOK") }

MaxTxRows == 2

\* id INTEGER PRIMARY KEY AUTOINCREMENT, for rows with all columns.
Stored(contents) == [i \in DOMAIN contents |-> [id |-> i] @@ contents[i]]

\* Twelve agents: enough to tell the first ten from all of them.
ManyAgents == 12

AgentName(i) == IF i < 10 THEN "A0" \o ToString(i) ELSE "A" \o ToString(i)

MonthNames ==
    <<"JAN", "FEB", "MAR", "APR", "MAY", "JUN", "JUL", "AUG", "SEP", "OCT", "NOV", "DEC">>

\* The transaction date of agent i: every month of the year occurs, in 2017
\* for odd months and in 2018 for even ones.
MonthOf(i) ==
    MonthNames[((i - 1) % 12) + 1] \o "-" \o (IF i % 2 = 1 THEN "2017" ELSE "2018")

\* Agent 1 closes two transactions, every other agent one, each in its month.
ManyAgentsTable ==
    Stored([i \in 1..(ManyAgents + 1) |->
        LET a == IF i > ManyAgents THEN 1 ELSE i
        IN  TxRow(AgentName(a), "AGENT " \o AgentName(a), MonthOf(a), "HDB", "RESALE",
                  "BUYER", "PUNGGOL")])

TxTables == {Stored(c) : c \in SeqsUpTo(TxRowPool, MaxTxRows)} \cup {ManyAgentsTable}

-----------------------------------------------------------------------------
(* precomputeStats: the aggregate tables *)

\* WHERE salesperson_reg_num IS NOT NULL AND != '-' AND != ''
IsAgentRow(row) ==
    row.salesperson_reg_num # Null /\ row.salesperson_reg_num \notin {"-", ""}

\* MAX(col) over rows: the greatest non-NULL value, NULL when there is none.
SqlMax(vals) ==
    IF vals \ {Null} = {} THEN Null
    ELSE CHOOSE v \in vals \ {Null} : \A w \in vals \ {Null} : w = v \/ StrLess(w, v)

\* GROUP BY salesperson_reg_num, salesperson_name over rows: one row per group
\* with COUNT(*), ORDER BY totalTransactions DESC.
AgentGroups(rows, p) ==
    LET G == {<<rows[i].salesperson_reg_num, rows[i].salesperson_name>> : i \in DOMAIN rows}
        Count(g) == Cardinality({i \in DOMAIN rows :
                        <<rows[i].salesperson_reg_num, rows[i].salesperson_name>> = g})
        Before(g, h) == Count(g) > Count(h) \/ (Count(g) = Count(h) /\ TieBefore(p, g, h))
        order == Sorted(G, Before)
    IN  [i \in DOMAIN order |->
            [regNum |-> order[i][1], name |-> order[i][2],
             totalTransactions |-> Count(order[i])]]

\* CREATE TABLE top_agents AS SELECT ... : the rows in insertion order.
TopAgentsTable(table, p) ==
    LET rows == SelectSeq(table, IsAgentRow)
        groups == AgentGroups(rows, p)
    IN  [i \in DOMAIN groups |->
            [regNum |-> groups[i].regNum, name |-> groups[i].name,
             totalTransactions |-> groups[i].totalTransactions,
             lastTransaction |->
                SqlMax({rows[j].transaction_date : j \in
                            {k \in DOMAIN rows :
                                /\ rows[k].salesperson_reg_num = groups[i].regNum
                                /\ rows[k].salesperson_name = groups[i].name}})]]

-----------------------------------------------------------------------------
(* GET /api/datasets/:id/agents/top *)

DefaultAgentsLimit == 50

\* const { limit = 50 } = req.query; parseInt(limit)
AgentsLimit(p) == IF p.kind = "absent" THEN DefaultAgentsLimit ELSE p.n

\* search.trim() is empty
Blank(s) == \A i \in 1..Len(s) : SubSeq(s, i, i) = " "

\* col LIKE '%s%' for a text without wildcards; NULL LIKE x is NULL.
SqlLike(colVal, s) == colVal # Null /\ Includes(colVal, s)

\* {} in a response body
EmptyObject == <<>>

Sum(f) ==
    LET RECURSIVE Up(_)
        Up(i) == IF i > Len(f) THEN 0 ELSE f[i] + Up(i + 1)
    IN  Up(1)

\* (a / b).toFixed(0) as a number: the nearest integer, halves upwards.
RoundDiv(a, b) == (2 * a + b) \div (2 * b)

\* (a / b * 100).toFixed(1), in tenths of a percent.
PercentTenths(a, b) == (2000 * a + b) \div (2 * b)

\* ROW_NUMBER() OVER (PARTITION BY salesperson_reg_num ORDER BY COUNT(*) DESC) = 1
\* over GROUP BY salesperson_reg_num, col: the first value of the agent and its
\* count, or Null when the batch holds no row of the agent.
TopOf(rows, reg, col, p) ==
    LET own == {i \in DOMAIN rows : rows[i].salesperson_reg_num = reg}
        V == {rows[i][col] : i \in own}
        Count(v) == Cardinality({i \in own : rows[i][col] = v})
        First(v) == \A w \in V \ {v} :
                        Count(v) > Count(w) \/ (Count(v) = Count(w) /\ TieBefore(p, <<v>>, <<w>>))
    IN  IF own = {} THEN Null
        ELSE LET v == CHOOSE x \in V : First(x) IN <<v, Count(v)>>

\* map.get(agent.regNum) || dflt
OrElse(found, dflt) == IF found = Null THEN dflt ELSE found

\* SELECT * FROM top_agents ORDER BY totalTransactions DESC LIMIT ?
TopAgentsRanked(stored, p, limit) ==
    LET Before(i, j) ==
            \/ stored[i].totalTransactions > stored[j].totalTransactions
            \/ /\ stored[i].totalTransactions = stored[j].totalTransactions
               /\ IF p = "forward" THEN i < j ELSE i > j
        order == Sorted(DOMAIN stored, Before)
    IN  SqlLimitOffset([i \in DOMAIN order |-> stored[order[i]]], limit, 0)

\* The fast path: agents read from top_agents, two batch queries on transactions.
AgentsTopFast(table, stored, p, limit) ==
    LET topAgents == TopAgentsRanked(stored, p, limit)
        regs == {topAgents[i].regNum : i \in DOMAIN topAgents}
        batch == SelectSeq(table, LAMBDA r : r.salesperson_reg_num \in regs)
        agents == [i \in DOMAIN topAgents |->
                    topAgents[i] @@
                    [topPropertyType |->
                        OrElse(TopOf(batch, topAgents[i].regNum, "property_type", p),
                               <<"Unknown", 0>>),
                     topTransactionType |->
                        OrElse(TopOf(batch, topAgents[i].regNum, "transaction_type", p),
                               <<"Unknown", 0>>),
                     topRepresentation |-> <<"Unknown", 0>>,
                     topTown |-> Null]]
        totalTransactions == Sum([i \in DOMAIN agents |-> agents[i].totalTransactions])
    IN  [status |-> 200,
         body |-> [total |-> Len(stored),
                   showing |-> Len(agents),
                   agents |-> agents,
                   statistics |->
                     [averageTransactions |->
                        IF Len(agents) > 0 THEN RoundDiv(totalTransactions, Len(agents)) ELSE 0,
                      topAgentMarketShare |-> 0,
                      top10MarketShare |-> 0,
                      totalTransactions |-> totalTransactions]]]

\* The slow path: everything computed from transactions under the WHERE clause.
AgentsTopSlow(table, parsed, search, p, limit) ==
    LET like == search.kind = "str" /\ ~Blank(search.s)
        Where(r) ==
            /\ IsAgentRow(r)
            /\ HasWhere(parsed) => WhereHolds(r, parsed.obj)
            /\ like => (SqlLike(r.salesperson_name, search.s)
                            \/ SqlLike(r.salesperson_reg_num, search.s))
        rows == SelectSeq(table, Where)
        topAgents == SqlLimitOffset(AgentGroups(rows, p), limit, 0)
        regs == {topAgents[i].regNum : i \in DOMAIN topAgents}
        batch == SelectSeq(table, LAMBDA r :
                    /\ r.salesperson_reg_num \in regs
                    /\ HasWhere(parsed) => WhereHolds(r, parsed.obj))
        towns == SelectSeq(batch, LAMBDA r : r.town # Null /\ r.town # "-")
        agents == [i \in DOMAIN topAgents |->
                    topAgents[i] @@
                    [topPropertyType |->
                        OrElse(TopOf(batch, topAgents[i].regNum, "property_type", p),
                               <<"Unknown", 0>>),
                     topTransactionType |->
                        OrElse(TopOf(batch, topAgents[i].regNum, "transaction_type", p),
                               <<"Unknown", 0>>),
                     topRepresentation |->
                        OrElse(TopOf(batch, topAgents[i].regNum, "represented", p),
                               <<"Unknown", 0>>),
                     topTown |-> TopOf(towns, topAgents[i].regNum, "town", p),
                     propertyTypes |-> EmptyObject,
                     transactionTypes |-> EmptyObject,
                     representation |-> EmptyObject,
                     towns |-> EmptyObject,
                     districts |-> EmptyObject]]
        totalTransactions == Sum([i \in DOMAIN agents |-> agents[i].totalTransactions])
        top10 == Sum([i \in 1..Min(10, Len(agents)) |-> agents[i].totalTransactions])
    IN  [status |-> 200,
         body |-> [total |-> Cardinality({rows[i].salesperson_reg_num : i \in DOMAIN rows}),
                   showing |-> Len(agents),
                   agents |-> agents,
                   statistics |->
                     [averageTransactions |->
                        IF Len(agents) > 0 THEN RoundDiv(totalTransactions, Len(agents)) ELSE 0,
                      topAgentMarketShare |->
                        IF Len(agents) > 0 /\ totalTransactions > 0
                        THEN PercentTenths(agents[1].totalTransactions, totalTransactions)
                        ELSE 0,
                      top10MarketShare |->
                        IF totalTransactions > 0
                        THEN PercentTenths(top10, totalTransactions)
                        ELSE 0,
                      totalTransactions |-> totalTransactions]]]

\* The handler: q holds the limit, filters and search parameters; tables are
\* the aggregate tables of the database file.
AgentsTopHandler(table, tables, p, q) ==
    IF ~Truthy(q.filters) /\ ~Truthy(q.search)
    THEN IF "top_agents" \in DOMAIN tables
         THEN AgentsTopFast(table, tables.top_agents, p, AgentsLimit(q.limit))
         ELSE [status |-> 500, body |-> [error |-> "Failed to calculate top agents"]]
    ELSE IF ParseFilters(q.filters) = ParseError
    THEN [status |-> 400, body |-> [error |-> "Invalid filters format"]]
    ELSE IF UnknownColumn(ParseFilters(q.filters))
    THEN [status |-> 500, body |-> [error |-> "Failed to calculate top agents"]]
    ELSE AgentsTopSlow(table, ParseFilters(q.filters), q.search, p, AgentsLimit(q.limit))

-----------------------------------------------------------------------------
(* Period keys computed by SQLite from transaction_date *)

\* substr(X, -4): the last four characters, or all of a shorter text.
SqlLast4(s) == SubSeq(s, Max(Len(s) - 3, 1), Len(s))

\* substr(X, 1, 3)
SqlFirst3(s) == SubSeq(s, 1, Min(3, Len(s)))

TwoDigits(n) == IF n < 10 THEN "0" \o ToString(n) ELSE ToString(n)

\* Variant of MonthConversion that writes the month number without padding.
MonthConversionUnpadded(date) ==
    IF \E m \in DOMAIN MonthNames : MonthNames[m] = SqlFirst3(date)
    THEN ToString(CHOOSE m \in DOMAIN MonthNames : MonthNames[m] = SqlFirst3(date))
    ELSE Null

\* CASE substr(transaction_date, 1, 3) WHEN 'JAN' THEN '01' ... END : NULL
\* when no branch matches.
MonthConversion(date) ==
    IF \E m \in DOMAIN MonthNames : MonthNames[m] = SqlFirst3(date)
    THEN TwoDigits(CHOOSE m \in DOMAIN MonthNames : MonthNames[m] = SqlFirst3(date))
    ELSE Null

\* substr(transaction_date, -4) || '-' || CASE ... END : NULL when the CASE is.
SqlMonthPeriod(date) ==
    IF MonthConversion(date) = Null THEN Null
    ELSE SqlLast4(date) \o "-" \o MonthConversion(date)

\* substr(transaction_date, -4)
SqlYearPeriod(date) == SqlLast4(date)

\* WHERE transaction_date IS NOT NULL AND transaction_date != '-'
HasDate(row) == row.transaction_date # Null /\ row.transaction_date # "-"

-----------------------------------------------------------------------------
(* precomputeStats: the other aggregate tables *)

\* ROUND(CAST(a AS FLOAT) / b * 100, 2), in hundredths of a percent.
PercentHundredths(a, b) == (20000 * a + b) \div (2 * b)

\* CREATE TABLE monthly_stats AS SELECT ... GROUP BY period, property_type,
\* transaction_type ORDER BY period
MonthlyStatsTable(table, p) ==
    LET rows == SelectSeq(table, HasDate)
        KeyOf(r) == <<SqlMonthPeriod(r.transaction_date), r.property_type, r.transaction_type>>
        G == {KeyOf(rows[i]) : i \in DOMAIN rows}
        Before(g, h) == SqlLess(g[1], h[1]) \/ (g[1] = h[1] /\ TieBefore(p, g, h))
        order == Sorted(G, Before)
    IN  [i \in DOMAIN order |->
            [period |-> order[i][1], property_type |-> order[i][2],
             transaction_type |-> order[i][3],
             count |-> Cardinality({j \in DOMAIN rows : KeyOf(rows[j]) = order[i]})]]

\* SELECT col, COUNT(*) as count ... GROUP BY col ORDER BY count DESC over rows.
ValueCounts(rows, col, p) ==
    LET V == {rows[i][col] : i \in DOMAIN rows}
        Count(v) == Cardinality({i \in DOMAIN rows : rows[i][col] = v})
        Before(v, w) == Count(v) > Count(w) \/ (Count(v) = Count(w) /\ TieBefore(p, <<v>>, <<w>>))
        order == Sorted(V, Before)
    IN  [i \in DOMAIN order |-> [value |-> order[i], count |-> Count(order[i])]]

\* CREATE TABLE property_type_stats AS ...
PropertyTypeStatsTable(table, p) ==
    LET counts == ValueCounts(table, "property_type", p)
    IN  [i \in DOMAIN counts |->
            [propertyType |-> Coalesce(counts[i].value), count |-> counts[i].count,
             percentage |-> PercentHundredths(counts[i].count, Len(table))]]

\* CREATE TABLE transaction_type_stats AS ...
TransactionTypeStatsTable(table, p) ==
    LET counts == ValueCounts(table, "transaction_type", p)
    IN  [i \in DOMAIN counts |->
            [transactionType |-> Coalesce(counts[i].value), count |-> counts[i].count,
             percentage |-> PercentHundredths(counts[i].count, Len(table))]]

\* CREATE TABLE town_stats AS ... WHERE town != '-'
TownStatsTable(table, p) ==
    LET rows == SelectSeq(table, LAMBDA r : r.town # Null /\ r.town # "-")
        counts == ValueCounts(rows, "town", p)
    IN  [i \in DOMAIN counts |->
            [town |-> counts[i].value, count |-> counts[i].count,
             percentage |-> PercentHundredths(counts[i].count, Len(rows))]]

\* The aggregate tables a run that commits leaves in the database file.
AggregateTables(table, p) ==
    [top_agents |-> TopAgentsTable(table, p),
     monthly_stats |-> MonthlyStatsTable(table, p),
     property_type_stats |-> PropertyTypeStatsTable(table, p),
     transaction_type_stats |-> TransactionTypeStatsTable(table, p),
     town_stats |-> TownStatsTable(table, p)]

-----------------------------------------------------------------------------
(* dateParser.js *)

\* MONTH_MAP[month]: undefined (Null) for a text that is no month name.
MONTH_MAP(month) ==
    IF \E m \in DOMAIN MonthNames : MonthNames[m] = month
    THEN TwoDigits(CHOOSE m \in DOMAIN MonthNames : MonthNames[m] = month)
    ELSE Null

\* String.prototype.split('-')
RECURSIVE SplitDash(_)
SplitDash(s) ==
    IF \E i \in 1..Len(s) : SubSeq(s, i, i) = "-"
    THEN LET at == CHOOSE i \in 1..Len(s) :
                        /\ SubSeq(s, i, i) = "-"
                        /\ \A j \in 1..(i - 1) : SubSeq(s, j, j) # "-"
         IN  <<SubSeq(s, 1, at - 1)>> \o SplitDash(SubSeq(s, at + 1, Len(s)))
    ELSE <<s>>

\* parseTransactionDate(dateStr): "YYYY-MM-01", or null.
parseTransactionDate(dateStr) ==
    IF dateStr = Null \/ dateStr = "" \/ dateStr = "-" THEN Null
    ELSE LET parts == SplitDash(dateStr)
             month == parts[1]
             year == IF Len(parts) >= 2 THEN parts[2] ELSE ""
         IN  IF MONTH_MAP(month) = Null \/ year = "" THEN Null
             ELSE year \o "-" \o MONTH_MAP(month) \o "-01"

\* String.prototype.substring(0, n)
Substring0(s, n) == SubSeq(s, 1, Min(n, Len(s)))

\* The period key groupByPeriod files a record under, or Null when it skips it.
PeriodKey(dateStr, period) ==
    IF parseTransactionDate(dateStr) = Null THEN Null
    ELSE IF period = "year" THEN Substring0(parseTransactionDate(dateStr), 4)
    ELSE Substring0(parseTransactionDate(dateStr), 7)

\* groupByPeriod(data, period) without groupByField: the count of every key.
groupByPeriod(data, period) ==
    LET keys == {PeriodKey(data[i].transaction_date, period) : i \in DOMAIN data} \ {Null}
    IN  [k \in keys |->
            Cardinality({i \in DOMAIN data : PeriodKey(data[i].transaction_date, period) = k})]

\* sortPeriods(periodKeys): localeCompare on keys made of digits and '-'.
sortPeriods(periodKeys) == Sorted(periodKeys, StrLess)

-----------------------------------------------------------------------------
(* GET /api/datasets/:id/timeseries *)

\* const { period = 'month' } = req.query
PeriodOf(p) == IF p.kind = "absent" THEN "month" ELSE p.s

\* periodExpression
SqlPeriod(date, period) ==
    IF period = "year" THEN SqlYearPeriod(date) ELSE SqlMonthPeriod(date)

\* String(key) of an object property
PropertyKey(v) == IF v = Null THEN "null" ELSE v

\* series.slice(-36)
ChartPeriods == 36

SliceLast(series, n) == SubSeq(series, Max(Len(series) - n + 1, 1), Len(series))

\* Variant of SeriesByPeriod that counts the distinct dates of a period.
SeriesByPeriodDistinctDates(rows, period) ==
    LET P == {SqlPeriod(rows[i].transaction_date, period) : i \in DOMAIN rows}
        order == Sorted(P, SqlLess)
    IN  [i \in DOMAIN order |->
            [period |-> order[i],
             count |-> Cardinality({rows[j].transaction_date : j \in
                            {k \in DOMAIN rows :
                                SqlPeriod(rows[k].transaction_date, period) = order[i]}})]]

\* SELECT period, COUNT(*) ... GROUP BY period ORDER BY period
SeriesByPeriod(rows, period) ==
    LET P == {SqlPeriod(rows[i].transaction_date, period) : i \in DOMAIN rows}
        order == Sorted(P, SqlLess)
    IN  [i \in DOMAIN order |->
            [period |-> order[i],
             count |-> Cardinality({j \in DOMAIN rows :
                            SqlPeriod(rows[j].transaction_date, period) = order[i]})]]

\* SELECT period, COALESCE(groupBy, 'Unknown') as groupByValue, COUNT(*) ...
\* GROUP BY period, groupByValue ORDER BY period, nested per period by the
\* handler: Object.keys(grouped).sort().map(...)
SeriesByPeriodAndValue(rows, period, col) ==
    LET KeyOf(r) == PropertyKey(SqlPeriod(r.transaction_date, period))
        keys == Sorted({KeyOf(rows[i]) : i \in DOMAIN rows}, StrLess)
        ValuesOf(k) == {Coalesce(rows[i][col]) : i \in {j \in DOMAIN rows : KeyOf(rows[j]) = k}}
    IN  [i \in DOMAIN keys |->
            [f \in {"period"} \cup ValuesOf(keys[i]) |->
                IF f \in ValuesOf(keys[i])
                THEN Cardinality({j \in DOMAIN rows :
                        KeyOf(rows[j]) = keys[i] /\ Coalesce(rows[j][col]) = f})
                ELSE keys[i]]]

TimeseriesHandler(table, q) ==
    LET period == PeriodOf(q.period)
        parsed == ParseFilters(q.filters)
    IN  IF parsed = ParseError
        THEN [status |-> 400, body |-> [error |-> "Invalid filters format"]]
        ELSE IF UnknownColumn(parsed) \/ (Truthy(q.groupBy) /\ q.groupBy.s \notin TxColumns)
        THEN [status |-> 500, body |-> [error |-> "Failed to calculate time series"]]
        ELSE LET rows == SelectSeq(table, LAMBDA r :
                            HasDate(r) /\ (HasWhere(parsed) => WhereHolds(r, parsed.obj)))
                 series == IF Truthy(q.groupBy)
                           THEN SeriesByPeriodAndValue(rows, period, q.groupBy.s)
                           ELSE SeriesByPeriod(rows, period)
             IN  [status |-> 200,
                  body |-> [period |-> period,
                            groupBy |-> IF Truthy(q.groupBy) THEN q.groupBy.s ELSE Null,
                            series |-> series,
                            chartData |-> SliceLast(series, ChartPeriods),
                            total |-> Len(rows)]]

-----------------------------------------------------------------------------
(* GET /api/datasets/:id/stats *)

DefaultStatsLimit == 100

\* req.query.limit ? parseInt(req.query.limit) : 100, written into the statement
StatsLimit(p) == IF p.kind = "absent" THEN DefaultStatsLimit ELSE p.n

StatsHandler(table, p, q) ==
    IF ~Truthy(q.field)
    THEN [status |-> 400, body |-> [error |-> "Field parameter is required"]]
    ELSE IF q.field.s \notin TxColumns \/ (q.limit.kind # "absent" /\ IsNaN(q.limit))
    THEN [status |-> 500, body |-> [error |-> "Failed to calculate stats"]]
    ELSE LET counts == SqlLimitOffset(ValueCounts(table, q.field.s, p), StatsLimit(q.limit), 0)
             stats == [i \in DOMAIN counts |->
                        [value |-> IF counts[i].value = Null THEN "(null)" ELSE counts[i].value,
                         count |-> counts[i].count]]
         IN  [status |-> 200,
              body |-> [field |-> q.field.s, total |-> Len(table),
                        uniqueValues |-> Len(stats), stats |-> stats]]

-----------------------------------------------------------------------------
(* GET /api/datasets/:id/insights *)

\* MIN(col) over rows: the least non-NULL value, NULL when there is none.
SqlMin(vals) ==
    IF vals \ {Null} = {} THEN Null
    ELSE CHOOSE v \in vals \ {Null} : \A w \in vals \ {Null} : w = v \/ StrLess(v, w)

\* SELECT MIN(transaction_date) as start, MAX(transaction_date) as end
DateRange(rows) ==
    LET dates == {rows[i].transaction_date : i \in {j \in DOMAIN rows : HasDate(rows[j])}}
    IN  [start |-> SqlMin(dates), end |-> SqlMax(dates)]

\* SELECT COALESCE(col, 'Unknown') as name, COUNT(*) as count,
\* ROUND(CAST(COUNT(*) AS FLOAT) / total * 100, 1) as percentage
\* ... GROUP BY col ORDER BY count DESC; percentage in tenths.
Distribution(rows, col, total, p) ==
    LET counts == ValueCounts(rows, col, p)
    IN  [i \in DOMAIN counts |->
            [name |-> Coalesce(counts[i].value), count |-> counts[i].count,
             percentage |-> PercentTenths(counts[i].count, total)]]

\* array[0]: undefined, which JSON leaves out, for an empty array.
FirstOf(array) == IF Len(array) > 0 THEN array[1] ELSE Null

\* A number of tenths as toFixed(1) writes it.
FixedTenths(n) ==
    LET a == IF n < 0 THEN 0 - n ELSE n
    IN  (IF n < 0 THEN "-" ELSE "") \o ToString(a \div 10) \o "." \o ToString(a % 10)

\* ((lastYear - prevYear) / prevYear * 100).toFixed(1)
GrowthText(lastYear, prevYear) ==
    IF lastYear >= prevYear
    THEN FixedTenths(PercentTenths(lastYear - prevYear, prevYear))
    ELSE FixedTenths(0 - PercentTenths(prevYear - lastYear, prevYear))

InsightsHandler(table, p, q) ==
    LET parsed == ParseFilters(q.filters)
    IN  IF parsed = ParseError
        THEN [status |-> 400, body |-> [error |-> "Invalid filters format"]]
        ELSE IF UnknownColumn(parsed)
        THEN [status |-> 500, body |-> [error |-> "Failed to calculate insights"]]
        ELSE LET rows == Matching(table, parsed)
                 dated == SelectSeq(rows, HasDate)
                 propertyTypes == Distribution(rows, "property_type", Len(rows), p)
                 transactionTypes == Distribution(rows, "transaction_type", Len(rows), p)
                 monthlyData == SeriesByPeriod(dated, "month")
                 yearlyData == SeriesByPeriod(dated, "year")
                 years == Len(yearlyData)
             IN  [status |-> 200,
                  body |->
                    [summary |-> [totalTransactions |-> Len(rows),
                                  dateRange |-> DateRange(rows),
                                  topPropertyType |-> FirstOf(propertyTypes),
                                  topTransactionType |-> FirstOf(transactionTypes)],
                     trends |->
                        [monthlyAverage |->
                            IF Len(monthlyData) > 0
                            THEN RoundDiv(Sum([i \in DOMAIN monthlyData |-> monthlyData[i].count]),
                                          Len(monthlyData))
                            ELSE 0,
                         yearlyGrowth |->
                            (IF years >= 2
                             THEN GrowthText(yearlyData[years].count, yearlyData[years - 1].count)
                             ELSE "0") \o "%"],
                     distributions |->
                        [propertyTypes |-> propertyTypes,
                         transactionTypes |-> transactionTypes,
                         represented |-> Distribution(rows, "represented", Len(rows), p)]]]

-----------------------------------------------------------------------------
(* GET /api/datasets/:id/insights of the server that keeps the records in  *)
(* memory (backend/src/main.js)                                            *)

\* The number NaN, which res.json writes as null.
NaN == [kind |-> "NaN"]

\* applyFilters(data, filters): row[key] === value, or value.includes(row[key]);
\* a key no record has reads undefined, which equals no filter value.
applyFilters(data, parsed) ==
    IF parsed.kind # "object" \/ DOMAIN parsed.obj = {} THEN data
    ELSE SelectSeq(data, LAMBDA row :
            \A k \in DOMAIN parsed.obj :
                /\ k \in DOMAIN row
                /\ row[k] # Null
                /\ IF parsed.obj[k].kind = "array"
                   THEN \E i \in DOMAIN parsed.obj[k].vals : row[k] = parsed.obj[k].vals[i]
                   ELSE row[k] = parsed.obj[k].val)

\* getDateRange(data): the dates that parse, ordered by their ISO form.
getDateRange(data) ==
    LET dates == {data[i].transaction_date : i \in {j \in DOMAIN data : HasDate(data[j])}}
        parsing == {d \in dates : parseTransactionDate(d) # Null}
        Iso(d) == parseTransactionDate(d)
    IN  IF parsing = {} THEN [start |-> Null, end |-> Null]
        ELSE [start |-> CHOOSE d \in parsing :
                            \A e \in parsing : e = d \/ StrLess(Iso(d), Iso(e)) \/ Iso(d) = Iso(e),
              end |-> CHOOSE d \in parsing :
                            \A e \in parsing : e = d \/ StrLess(Iso(e), Iso(d)) \/ Iso(d) = Iso(e)]

\* Object.entries(counts).map(...).sort((a, b) => b.count - a.count): the
\* names in order of first occurrence, stably sorted by count.
CountEntries(data, col, total) ==
    LET NameOf(i) == Coalesce(data[i][col])
        names == {NameOf(i) : i \in DOMAIN data}
        Count(n) == Cardinality({i \in DOMAIN data : NameOf(i) = n})
        First(n) == CHOOSE i \in DOMAIN data :
                        NameOf(i) = n /\ \A j \in DOMAIN data : NameOf(j) = n => i <= j
        Before(n, o) == Count(n) > Count(o) \/ (Count(n) = Count(o) /\ First(n) < First(o))
        order == Sorted(names, Before)
    IN  [i \in DOMAIN order |->
            [name |-> order[i], count |-> Count(order[i]),
             percentage |-> FixedTenths(PercentTenths(Count(order[i]), total))]]

\* Math.round(monthlyTotals.reduce((sum, val) => sum + val, 0) / monthlyTotals.length)
MonthlyAverageInMemory(monthlyData) ==
    LET months == Sorted(DOMAIN monthlyData, StrLess)
    IN  IF Len(months) = 0 THEN NaN
        ELSE Num(RoundDiv(Sum([i \in DOMAIN months |-> monthlyData[months[i]]]), Len(months)))

InsightsHandlerInMemory(data, q) ==
    LET parsedFilters == ParseFilters(q.filters)
    IN  IF parsedFilters = ParseError
        THEN [status |-> 400, body |-> [error |-> "Invalid filters format"]]
        ELSE LET filteredData == applyFilters(data, parsedFilters)
                 totalTransactions == Len(filteredData)
                 propertyTypes == CountEntries(filteredData, "property_type", totalTransactions)
                 transactionTypes ==
                    CountEntries(filteredData, "transaction_type", totalTransactions)
                 yearlyData == groupByPeriod(filteredData, "year")
                 years == sortPeriods(DOMAIN yearlyData)
             IN  [status |-> 200,
                  body |->
                    [summary |-> [totalTransactions |-> totalTransactions,
                                  dateRange |-> getDateRange(filteredData),
                                  topPropertyType |-> FirstOf(propertyTypes),
                                  topTransactionType |-> FirstOf(transactionTypes)],
                     trends |->
                        [monthlyAverage |->
                            MonthlyAverageInMemory(groupByPeriod(filteredData, "month")),
                         yearlyGrowth |->
                            (IF Len(years) >= 2
                             THEN GrowthText(yearlyData[years[Len(years)]],
                                             yearlyData[years[Len(years) - 1]])
                             ELSE "0") \o "%"],
                     distributions |->
                        [propertyTypes |-> propertyTypes,
                         transactionTypes |-> transactionTypes,
                         represented |->
                            CountEntries(filteredData, "represented", totalTransactions)]]]

-----------------------------------------------------------------------------
(* GET /api/datasets/:id/agents/:regNum *)

TopTownsLimit == 10

\* SELECT col as type, COUNT(*) as count, ROUND(... / total * 100, 1) as
\* percentage ... GROUP BY col ORDER BY count DESC
Breakdown(rows, col, total, p) ==
    LET counts == ValueCounts(rows, col, p)
    IN  [i \in DOMAIN counts |->
            [type |-> counts[i].value, count |-> counts[i].count,
             percentage |-> PercentTenths(counts[i].count, total)]]

AgentProfileHandler(table, p, regNum) ==
    LET rows == SelectSeq(table, LAMBDA r : SqlEq(r.salesperson_reg_num, regNum))
        \* GROUP BY salesperson_name, salesperson_reg_num; .get() takes the first group
        names == {rows[i].salesperson_name : i \in DOMAIN rows}
        name == CHOOSE n \in names : \A o \in names \ {n} : TieBefore(p, <<n>>, <<o>>)
        total == Cardinality({i \in DOMAIN rows : rows[i].salesperson_name = name})
        towns == SelectSeq(rows, LAMBDA r : r.town # Null /\ r.town # "-")
        topTowns == SqlLimitOffset(ValueCounts(towns, "town", p), TopTownsLimit, 0)
    IN  IF rows = <<>>
        THEN [status |-> 404, body |-> [error |-> "Agent not found"]]
        ELSE [status |-> 200,
              body |->
                [agent |-> [name |-> name, regNum |-> regNum, totalTransactions |-> total],
                 dateRange |-> DateRange(rows),
                 propertyTypes |-> Breakdown(rows, "property_type", total, p),
                 transactionTypes |-> Breakdown(rows, "transaction_type", total, p),
                 representation |-> Breakdown(rows, "represented", total, p),
                 topTowns |-> [i \in DOMAIN topTowns |->
                                [town |-> topTowns[i].value, count |-> topTowns[i].count,
                                 percentage |-> PercentTenths(topTowns[i].count, total)]],
                 monthlyActivity |-> SeriesByPeriod(SelectSeq(rows, HasDate), "month")]]

-----------------------------------------------------------------------------
(* SpecAgents: requests to the agent ranking of a store whose aggregate    *)
(* tables were pre-computed from it.                                       *)

AgentLimitParams == {Absent, Num(1), Num(2), Num(ManyAgents)}

EmptyFilterObject == [k \in {} |-> Scalar("-")]

\* filters: absent, empty, not JSON, {}, a filter on a filterable column, on
\* another column, and on a key that is no column.
AgentFiltersParams ==
    {FiltersAbsent, FiltersEmpty, FiltersMalformed,
     FiltersJson(EmptyFilterObject),
     FiltersJson([k \in {"property_type"} |-> Scalar("HDB")]),
     FiltersJson([k \in {"salesperson_name"} |-> Scalar("ANN")]),
     FiltersJson([k \in {"agency"} |-> Scalar("HDB")])}

SearchParams == {Absent, Str("R1"), Str(" ")}

InitAgents ==
    /\ db \in TxTables
    /\ planner \in Planners
    /\ agg = AggregateTables(db, planner)
    /\ job = [pc |-> "none"]
    /\ out = Idle
    /\ LruIdle
    /\ HttpIdle
    /\ ClientIdle

GetAgentsTop ==
    \E id \in DatasetIds, limit \in AgentLimitParams, fs \in AgentFiltersParams,
       search \in SearchParams :
        LET q == [limit |-> limit, filters |-> fs, search |-> search]
        IN  /\ out = Idle
            /\ out' = [route |-> "agents/top", id |-> id, query |-> q,
                       res |-> AgentsTopHandler(db, agg, planner, q)]
            /\ UNCHANGED <<db, lruVars, httpVars, clientVars, aggVars>>

PeriodParams == {Absent, Str("month"), Str("year")}

GroupByParams == {Absent, Str("property_type"), Str("town")}

GetTimeseries ==
    \E id \in DatasetIds, period \in PeriodParams, groupBy \in GroupByParams,
       fs \in AgentFiltersParams :
        LET q == [period |-> period, groupBy |-> groupBy, filters |-> fs]
        IN  /\ out = Idle
            /\ out' = [route |-> "timeseries", id |-> id, query |-> q,
                       res |-> TimeseriesHandler(db, q)]
            /\ UNCHANGED <<db, lruVars, httpVars, clientVars, aggVars>>

GetDatasetMetadata ==
    \E id \in DatasetIds :
        /\ out = Idle
        /\ out' = [route |-> "metadata", id |-> id, res |-> MetadataHandler(id)]
        /\ UNCHANGED <<db, lruVars, httpVars, clientVars, aggVars>>

GetDatasetData ==
    \E id \in DatasetIds, limit \in {Absent, Num(1)}, fs \in AgentFiltersParams :
        LET q == [page |-> Absent, limit |-> limit, filters |-> fs]
        IN  /\ out = Idle
            /\ out' = [route |-> "data", id |-> id, query |-> q, res |-> DataHandler(db, q)]
            /\ UNCHANGED <<db, lruVars, httpVars, clientVars, aggVars>>

FieldParams == {Absent, Str("property_type"), Str("town"), Str("agency")}

GetStats ==
    \E id \in DatasetIds, field \in FieldParams, limit \in {Absent, Num(1), NonNumeric} :
        LET q == [field |-> field, limit |-> limit]
        IN  /\ out = Idle
            /\ out' = [route |-> "stats", id |-> id, query |-> q,
                       res |-> StatsHandler(db, planner, q)]
            /\ UNCHANGED <<db, lruVars, httpVars, clientVars, aggVars>>

GetDatasetAnalytics ==
    \E id \in DatasetIds, dimension1 \in {DimAbsent, "property_type"},
       fs \in AgentFiltersParams :
        LET q == [dimension1 |-> dimension1, dimension2 |-> DimAbsent, filters |-> fs]
        IN  /\ out = Idle
            /\ out' = [route |-> "analytics", id |-> id, query |-> q,
                       res |-> AnalyticsHandler(db, q)]
            /\ UNCHANGED <<db, lruVars, httpVars, clientVars, aggVars>>

GetInsights ==
    \E id \in DatasetIds, fs \in AgentFiltersParams :
        LET q == [filters |-> fs]
        IN  /\ out = Idle
            /\ out' = [route |-> "insights", id |-> id, query |-> q,
                       res |-> InsightsHandler(db, planner, q)]
            /\ UNCHANGED <<db, lruVars, httpVars, clientVars, aggVars>>

\* The same request to the server that keeps the records in memory, which
\* loads the records the store was built from.
GetInsightsInMemory ==
    \E id \in DatasetIds, fs \in AgentFiltersParams :
        LET q == [filters |-> fs]
        IN  /\ out = Idle
            /\ out' = [route |-> "insights/memory", id |-> id, query |-> q,
                       res |-> InsightsHandlerInMemory(db, q)]
            /\ UNCHANGED <<db, lruVars, httpVars, clientVars, aggVars>>

\* Registration numbers a profile is asked for: two of the pool, one of the
\* many-agents store, one that no row carries.
RegNumParams == {"R1", "R2", AgentName(1), "R9"}

GetAgentProfile ==
    \E id \in DatasetIds, regNum \in RegNumParams :
        /\ out = Idle
        /\ out' = [route |-> "agents/profile", id |-> id, regNum |-> regNum,
                   res |-> AgentProfileHandler(db, planner, regNum)]
        /\ UNCHANGED <<db, lruVars, httpVars, clientVars, aggVars>>

NextAgents ==
    \/ GetDatasetMetadata
    \/ GetDatasetData
    \/ GetStats
    \/ GetDatasetAnalytics
    \/ GetTimeseries
    \/ GetInsights
    \/ GetInsightsInMemory
    \/ GetAgentsTop
    \/ GetAgentProfile
    \/ ReadResponse

SpecAgents == InitAgents /\ [][NextAgents]_vars

-----------------------------------------------------------------------------
(* Properties of the agent ranking *)

\* The fields of a ranked agent that both paths are to agree on.
AgentView(a) ==
    [regNum |-> a.regNum, totalTransactions |-> a.totalTransactions,
     topPropertyType |-> a.topPropertyType, topTransactionType |-> a.topTransactionType,
     topRepresentation |-> a.topRepresentation, topTown |-> a.topTown]

RankingView(body) ==
    [total |-> body.total, showing |-> body.showing,
     agents |-> [i \in DOMAIN body.agents |-> AgentView(body.agents[i])],
     statistics |-> body.statistics]

\* C11: the body answered on the fast path (no filters, no search) agrees with
\* the body the slow path answers for the same limit with filters={} in total,
\* showing, the agents with their order and top values, and the statistics.
C11_FastPathEqualsSlowPath ==
    ( /\ out.route = "agents/top"
      /\ ~Truthy(out.query.filters)
      /\ ~Truthy(out.query.search)
      /\ out.res.status = 200 )
        => RankingView(out.res.body)
            = RankingView(AgentsTopHandler(db, agg, planner,
                            [out.query EXCEPT !.filters = FiltersJson(EmptyFilterObject)]).body)

C14_MarketShares ==
    (out.route = "agents/top" /\ out.res.status = 200) =>
        LET agents == out.res.body.agents
            denominator == Sum([i \in DOMAIN agents |-> agents[i].totalTransactions])
            firstTen == Sum([i \in 1..Min(10, Len(agents)) |-> agents[i].totalTransactions])
            stats == out.res.body.statistics
        IN  IF denominator = 0
            THEN stats.topAgentMarketShare = 0 /\ stats.top10MarketShare = 0
            ELSE /\ stats.topAgentMarketShare
                        = PercentTenths(agents[1].totalTransactions, denominator)
                 /\ stats.top10MarketShare = PercentTenths(firstTen, denominator)

-----------------------------------------------------------------------------
(* Properties of the time series *)

Years == {"2017", "2018"}

\* A transaction_date of the form MMM-YYYY.
MonthYear(date) ==
    date # Null /\ \E m \in DOMAIN MonthNames, y \in Years : date = MonthNames[m] \o "-" \o y

\* The rows a time-series request counts.
Counted(row, fs) ==
    HasDate(row) /\ (HasWhere(ParseFilters(fs)) => WhereHolds(row, ParseFilters(fs).obj))

\* C13: SQLite's period expression maps every MMM-YYYY date to YYYY-MM with
\* JAN=01 ... DEC=12 (to YYYY for period=year), as dateParser does; every
\* counted row with such a date is in the series entry of its key, and the
\* period keys of the series are strictly ascending, with or without groupBy.
C13_DatesBucketedSeriesAscending ==
    /\ \A m \in DOMAIN MonthNames, y \in Years :
        LET date == MonthNames[m] \o "-" \o y
        IN  /\ SqlPeriod(date, "month") = y \o "-" \o (IF m < 10 THEN "0" ELSE "") \o ToString(m)
            /\ SqlPeriod(date, "year") = y
    /\ (out.route = "timeseries" /\ out.res.status = 200) =>
        LET series == out.res.body.series
            period == out.res.body.period
            rows == {i \in DOMAIN db : Counted(db[i], out.query.filters)}
        IN  /\ \A i \in rows :
                MonthYear(db[i].transaction_date) =>
                    \E k \in DOMAIN series :
                        /\ series[k].period = PeriodKey(db[i].transaction_date, period)
                        /\ IF out.res.body.groupBy = Null
                           THEN series[k].count =
                                    Cardinality({j \in rows :
                                        PeriodKey(db[j].transaction_date, period)
                                            = series[k].period})
                           ELSE Coalesce(db[i][out.res.body.groupBy]) \in DOMAIN series[k]
            /\ \A k, l \in DOMAIN series :
                k < l => SqlLess(series[k].period, series[l].period)
            /\ [k \in DOMAIN series |-> series[k].period]
                    = sortPeriods({series[k].period : k \in DOMAIN series})

\* A monthly series grouped by a column that holds every month of the year,
\* months of 2018 among those of 2017.
C13_Witness ==
    /\ out.route = "timeseries"
    /\ out.res.status = 200
    /\ out.res.body.period = "month"
    /\ out.res.body.groupBy # Null
    /\ Len(out.res.body.series) = 12
    /\ out.res.body.series[1].period = "2017-01"
    /\ out.res.body.series[12].period = "2018-12"

-----------------------------------------------------------------------------
(* Properties of the filters parameter and of the dataset id *)

FilterRoutes == {"data", "analytics", "timeseries", "insights", "agents/top"}

DatasetRoutes == FilterRoutes \cup {"metadata", "stats", "agents/profile"}

\* The request's other parameters are ones the endpoint accepts: analytics
\* requires dimension1.
OtherwiseValid == out.route = "analytics" => out.query.dimension1 # DimAbsent

\* The response of the same endpoint to the same request with filters={}.
WithEmptyFilterObject ==
    LET q == [out.query EXCEPT !.filters = FiltersJson(EmptyFilterObject)]
    IN  CASE out.route = "data" -> DataHandler(db, q)
          [] out.route = "analytics" -> AnalyticsHandler(db, q)
          [] out.route = "timeseries" -> TimeseriesHandler(db, q)
          [] out.route = "insights" -> InsightsHandler(db, planner, q)

AllowedFilterKeys == {"property_type", "transaction_type", "represented", "town", "district"}

\* C16: a filters object with a key outside the allowed filter keys is
\* answered 400 on every endpoint that accepts filters.
C16_UnknownFilterKey400 ==
    ( /\ out.route \in FilterRoutes
      /\ out.query.filters.kind = "json"
      /\ ~(DOMAIN out.query.filters.obj \subseteq AllowedFilterKeys) )
        => out.res.status = 400

\* C17: a request under /api/datasets/{id} whose id is not the id of the
\* stored dataset is answered 404.
C17_UnknownDataset404 ==
    (out.route \in DatasetRoutes /\ out.id # StoredId) => out.res.status = 404

-----------------------------------------------------------------------------
(* Properties of the dataset-scoped flush *)

\* Pool post is pool pre without exactly the entries of dataset d: the other
\* entries are there with their values and expiries, in the same relative
\* order, and the counters are those of pre.
FlushedOf(pre, post, d) ==
    /\ Keys(post) = {k \in Keys(pre) : ~Includes(k, "/api/datasets/" \o d)}
    /\ post.cache = SelectSeq(pre.cache, LAMBDA e : e.key \in Keys(post))
    /\ post.hits = pre.hits
    /\ post.misses = pre.misses
    /\ post.maxSize = pre.maxSize
    /\ post.ttl = pre.ttl

\* C18: a step invalidateDataset(d) leaves the pool without exactly the
\* entries whose key contains "/api/datasets/d": every other entry, their
\* relative order and the hit and miss counters are unchanged, and the call
\* returns the number of entries removed.
C18_DatasetFlushRemovesExactlyItsEntries ==
    [][(steps' # steps /\ now' = now /\ call'.op = "invalidateDataset") =>
            /\ FlushedOf(lru, lru', call'.arg.s)
            /\ call'.result.count = Len(lru.cache) - Len(lru'.cache)]_vars

\* A flush of one dataset from a pool with a counted hit that held an entry
\* of it among entries of another dataset, which stay.
C18_Witness ==
    /\ call.op = "invalidateDataset"
    /\ call.arg = Str("cea2")
    /\ call.removed = {OtherDataKey}
    /\ Len(lru.cache) >= 2
    /\ lru.hits > 0

-----------------------------------------------------------------------------
(* precomputeStats: the run.  agg holds the aggregate tables committed to  *)
(* the database file; job holds the position of the script, the tables as  *)
(* its open transaction sees them, and the exit status of the process.     *)

\* The statements of the script in execution order.
Statements ==
    <<"BEGIN", "top_agents", "idx_top_agents_total", "monthly_stats", "idx_monthly_period",
      "property_type_stats", "transaction_type_stats", "town_stats", "COMMIT", "ANALYZE">>

AggregateNames ==
    {"top_agents", "monthly_stats", "property_type_stats", "transaction_type_stats",
     "town_stats"}

\* The statement after s.
After(s) == Statements[(CHOOSE i \in DOMAIN Statements : Statements[i] = s) + 1]

NoFailure == "<none>"

\* Tables without the table of one name: DROP TABLE IF EXISTS
DropTable(tables, name) == [n \in DOMAIN tables \ {name} |-> tables[n]]

\* DROP TABLE IF EXISTS name; CREATE TABLE name AS SELECT ...
CreateTableAs(tables, name, table, p) ==
    [n \in DOMAIN tables \cup {name} |->
        IF n = name THEN AggregateTables(table, p)[name] ELSE tables[n]]

\* The script waits to be started on a database file whose aggregate tables
\* are missing (first build) or those of an earlier import.
InitPrecompute ==
    /\ db \in TxTables
    /\ planner \in Planners
    /\ agg \in {NoTables, AggregateTables(<<>>, planner),
                AggregateTables(SubSeq(db, 1, Len(db) - 1), planner)}
    /\ job = [pc |-> Statements[1], txn |-> FALSE, work |-> agg, prior |-> agg,
              failed |-> NoFailure, exit |-> Null]
    /\ out = Idle
    /\ LruIdle
    /\ HttpIdle
    /\ ClientIdle

\* The statement at job.pc throws: control passes to the catch block.
Throws(work) ==
    job' = [job EXCEPT !.pc = "catch", !.failed = job.pc, !.work = work]

AtStatement(names) == job.pc \in names

\* db.exec('BEGIN TRANSACTION')
Begin ==
    /\ AtStatement({"BEGIN"})
    /\ \/ job' = [job EXCEPT !.pc = After(@), !.txn = TRUE, !.work = agg]
       \/ Throws(job.work)
    /\ UNCHANGED <<agg, planner, dataVars, lruVars, httpVars, clientVars>>

\* db.exec(`DROP TABLE IF EXISTS t; CREATE TABLE t AS SELECT ...`): a failure
\* comes before the DROP or after it.
CreateTable ==
    /\ AtStatement(AggregateNames)
    /\ \/ job' = [job EXCEPT !.pc = After(@),
                             !.work = CreateTableAs(job.work, job.pc, db, planner)]
       \/ Throws(job.work)
       \/ Throws(DropTable(job.work, job.pc))
    /\ UNCHANGED <<agg, planner, dataVars, lruVars, httpVars, clientVars>>

\* db.exec('CREATE INDEX ...'): an index adds no rows to the tables.
CreateIndex ==
    /\ AtStatement({"idx_top_agents_total", "idx_monthly_period"})
    /\ \/ job' = [job EXCEPT !.pc = After(@)]
       \/ Throws(job.work)
    /\ UNCHANGED <<agg, planner, dataVars, lruVars, httpVars, clientVars>>

\* db.exec('COMMIT'): the tables of the transaction become those of the file.
Commit ==
    /\ AtStatement({"COMMIT"})
    /\ \/ /\ job' = [job EXCEPT !.pc = After(@), !.txn = FALSE]
          /\ agg' = job.work
       \/ /\ Throws(job.work)
          /\ agg' = agg
    /\ UNCHANGED <<planner, dataVars, lruVars, httpVars, clientVars>>

\* db.exec('ANALYZE'), outside the transaction; after it the script ends and
\* the process exits with status 0.
Analyze ==
    /\ AtStatement({"ANALYZE"})
    /\ \/ job' = [job EXCEPT !.pc = "exited", !.exit = 0]
       \/ Throws(job.work)
    /\ UNCHANGED <<agg, planner, dataVars, lruVars, httpVars, clientVars>>

\* catch: db.exec('ROLLBACK') discards the open transaction and
\* process.exit(1) follows; without an open transaction ROLLBACK throws
\* inside the catch block and the uncaught error ends the process with
\* status 1.  The tables of the file stay as they are.
Catch ==
    /\ job.pc = "catch"
    /\ job' = [job EXCEPT !.pc = "exited", !.txn = FALSE, !.work = agg, !.exit = 1]
    /\ UNCHANGED <<agg, planner, dataVars, lruVars, httpVars, clientVars>>

NextPrecompute == Begin \/ CreateTable \/ CreateIndex \/ Commit \/ Analyze \/ Catch

SpecPrecompute == InitPrecompute /\ [][NextPrecompute]_vars

-----------------------------------------------------------------------------
(* Properties of the pre-computation *)

\* C19: when a statement of the run has failed and the process has exited,
\* the file holds exactly the aggregate tables it held before the run, and
\* the exit status is not 0.
C19_FailedRunLeavesPriorTables ==
    (job.pc = "exited" /\ job.failed # NoFailure) =>
        /\ agg = job.prior
        /\ job.exit # 0

\* The registration numbers top_agents is built for.
AgentRegNums ==
    {db[i].salesperson_reg_num : i \in {j \in DOMAIN db : IsAgentRow(db[j])}}

\* C20: after a run that exited with status 0, top_agents holds exactly one
\* row for each registration number that is not NULL, '-' or '', and the
\* row's totalTransactions is the number of transactions rows with it.
C20_OneRowPerRegNum ==
    (job.pc = "exited" /\ job.exit = 0) =>
        /\ "top_agents" \in DOMAIN agg
        /\ {agg.top_agents[i].regNum : i \in DOMAIN agg.top_agents} = AgentRegNums
        /\ \A reg \in AgentRegNums :
            LET rows == {i \in DOMAIN agg.top_agents : agg.top_agents[i].regNum = reg}
            IN  /\ Cardinality(rows) = 1
                /\ \A i \in rows :
                    agg.top_agents[i].totalTransactions =
                        Cardinality({j \in DOMAIN db : db[j].salesperson_reg_num = reg})

-----------------------------------------------------------------------------
(* Properties of a repeated set *)

\* What the claim compares of a pool: the keys in eviction order with their
\* stored values, and the counters.
PoolView(c) ==
    [entries |-> [i \in DOMAIN c.cache |-> [key |-> c.cache[i].key, value |-> c.cache[i].value]],
     hits |-> c.hits, misses |-> c.misses]

\* C21: in every state reached by a call set(k, v), a second call set(k, v)
\* with the same arguments, at the same instant or a millisecond later, leaves
\* the keys, the size, the stored values, the eviction order and the hit and
\* miss counters as they are and evicts nothing, also in a pool at capacity.
C21_DuplicateSetIsIdempotent ==
    call.op = "set" =>
        \A t \in {now, now + 1} :
            LET again == LRUSet(lru, call.key, call.result, call.arg, t)
            IN  /\ PoolView(again) = PoolView(lru)
                /\ Keys(lru) \ Keys(again) = {}
                /\ Len(again.cache) = Len(lru.cache)

\* A set of a new key into a pool at capacity, which evicted an entry, in a
\* pool with counted hits: the state the second set starts from.
C21_Witness ==
    /\ call.op = "set"
    /\ ~call.preHas
    /\ call.preSize = lru.maxSize
    /\ call.removed # {}
    /\ Len(lru.cache) = lru.maxSize
    /\ lru.hits > 0

-----------------------------------------------------------------------------
(* Properties of a filter that matches no row *)

\* The request carries a filter object on columns of the table that no row
\* of the store satisfies.
MatchesNoRow ==
    /\ out.route \in {"data", "analytics", "timeseries", "insights", "insights/memory"}
    /\ OtherwiseValid
    /\ HasWhere(ParseFilters(out.query.filters))
    /\ ~UnknownColumn(ParseFilters(out.query.filters))
    /\ Len(db) > 0
    /\ Matching(db, ParseFilters(out.query.filters)) = <<>>

\* An insights body of an empty result: no transaction, averages and growth
\* of zero, empty distributions.
EmptyInsights(body, zero) ==
    /\ body.summary.totalTransactions = 0
    /\ body.trends.monthlyAverage = zero
    /\ body.trends.yearlyGrowth = "0%"
    /\ body.distributions.propertyTypes = <<>>
    /\ body.distributions.transactionTypes = <<>>
    /\ body.distributions.represented = <<>>

\* The answers of the server over SQLite to a filter that matches no row.
EmptyResultOverSqlite ==
    MatchesNoRow /\ out.route # "insights/memory" =>
        /\ out.res.status = 200
        /\ out.route = "insights" => EmptyInsights(out.res.body, 0)
        /\ out.route = "data" =>
            out.res.body.data = <<>> /\ out.res.body.pagination.total = 0
        /\ out.route = "analytics" =>
            /\ out.res.body.data = <<>>
            /\ out.res.body.chartData = <<>>
            /\ out.res.body.total = 0
        /\ out.route = "timeseries" =>
            /\ out.res.body.series = <<>>
            /\ out.res.body.chartData = <<>>
            /\ out.res.body.total = 0

\* C22: a well-formed filter that matches no row is answered 200: insights
\* with totalTransactions 0, monthlyAverage 0, yearlyGrowth "0%" and empty
\* distributions, by either implementation of the endpoint; data, analytics
\* and timeseries with empty arrays and total 0.
C22_EmptyResultIsSuccess ==
    /\ EmptyResultOverSqlite
    /\ MatchesNoRow /\ out.route = "insights/memory" =>
        /\ out.res.status = 200
        /\ EmptyInsights(out.res.body, Num(0))

\* The in-memory insights handler has answered a filter that matches no row
\* with a monthlyAverage that is not a number.
C22_NaNReached ==
    /\ MatchesNoRow
    /\ out.route = "insights/memory"
    /\ out.res.status = 200
    /\ out.res.body.summary.totalTransactions = 0
    /\ out.res.body.trends.monthlyAverage = NaN

-----------------------------------------------------------------------------
(* Properties of failing requests *)

Pools == [api |-> apiCache, stats |-> statsCache]

\* The cacheable GET requests of the clients.
CacheableRequests ==
    {r \in {Request("GET", tg.path, tg.query, NoTag) : tg \in GetTargets} : ShouldCache(r)}

\* The bodies the routes send with a status outside 200-299.
FailureBodies ==
    {h.body : h \in {g \in {Route(r, db, now, Pools) : r \in CacheableRequests} :
                        g.status < 200 \/ g.status > 299}}

\* The last request was a cacheable GET whose handler ran and failed.
FailedCacheable ==
    /\ http.kind = "GET"
    /\ http.xcache = "MISS"
    /\ (http.handled < 200 \/ http.handled > 299)

\* C23: neither pool holds a body that a route sent with a status outside
\* 200-299; after a failing cacheable request its key is in no pool, and the
\* same request sent again misses and runs the handler again.
C23_FailuresNeverCached ==
    /\ \A which \in {"api", "stats"} :
            \A i \in DOMAIN Pools[which].cache :
                Pools[which].cache[i].value \notin FailureBodies
    /\ FailedCacheable =>
        /\ ~Has(Pools[http.pool], GetCacheKey(http.req))
        /\ \A d \in {0, 1} :
                LET again == Exchange(http.req, Pools, db, now + d)
                IN  again.xcache = "MISS" /\ again.handled = http.handled

\* A cacheable request has been answered 400, 404 or 500 while its pool held
\* entries and had missed before.
C23_Witness ==
    /\ FailedCacheable
    /\ http.handled \in {400, 404, 500}
    /\ Len(Pools[http.pool].cache) > 0
    /\ http.before[http.pool].misses >= 1
    /\ FailureBodies # {}

\* C24: a 304 goes out only when the handler or a cache hit produced a 2xx
\* body; a response whose handler answered 400, 404 or 500 keeps that status
\* and its error body, whatever If-None-Match the request carried.
C24_NotModifiedOnlyForSuccess ==
    http.kind = "GET" =>
        /\ http.status = 304 =>
                http.xcache = "HIT" \/ (http.handled >= 200 /\ http.handled <= 299)
        /\ http.handled \in {400, 404, 500} =>
                /\ http.status = http.handled
                /\ http.body # NoBody
                /\ "error" \in DOMAIN http.body

\* A handler has answered 404 to a request whose If-None-Match was the
\* validator of the error body, and 304 without a body went out.
C24_ErrorAnswered304 ==
    /\ http.kind = "GET"
    /\ http.handled = 404
    /\ http.req.ifNoneMatch = GenerateETag([error |-> "Dataset not found"])
    /\ http.status = 304
    /\ http.body = NoBody

-----------------------------------------------------------------------------
(* Properties of GET /api/cache/stats *)

CacheStatsPath == <<"api", "cache", "stats">>

\* The pools while the last request was handled: as it arrived, after the
\* lookup of cacheMiddleware, and as it left them.
PoolsWhileHandled ==
    LET which == http.pool
        key == GetCacheKey(http.req)
    IN  {http.before,
         [http.before EXCEPT ![which] = LRUGet(@, key, http.at).pool],
         Pools}

\* C25: a 200 answer of GET /api/cache/stats carries the hits, misses and
\* size each pool has while the request is handled; when the counters have
\* changed since an earlier answer of the route, the body differs from it.
C25_CacheStatsAreCurrent ==
    (http.kind = "GET" /\ http.req.path = CacheStatsPath /\ http.status = 200) =>
        /\ \E pools \in PoolsWhileHandled : http.body = GetCacheStats(pools).body
        /\ (/\ http.prior # NoPrior
            /\ http.prior.status = 200
            /\ GetCacheStats(http.before).body # http.prior.body)
                => http.body # http.prior.body

\* GET /api/cache/stats has been answered from statsCache with the body of
\* an earlier answer although the pools have changed since.
C25_StaleStatsServed ==
    /\ http.kind = "GET"
    /\ http.req.path = CacheStatsPath
    /\ http.status = 200
    /\ http.xcache = "HIT"
    /\ http.prior # NoPrior
    /\ http.body = http.prior.body
    /\ \A pools \in PoolsWhileHandled : http.body # GetCacheStats(pools).body
    /\ http.body.api.misses < http.before.api.misses

-----------------------------------------------------------------------------
(* Properties of the time series and of the agent profile *)

\* The rows of the store that satisfy the request's filter and carry a
\* transaction_date that is neither NULL nor '-'.
DatedMatches ==
    {i \in DOMAIN db :
        /\ db[i].transaction_date # Null
        /\ db[i].transaction_date # "-"
        /\ HasWhere(ParseFilters(out.query.filters))
                => WhereHolds(db[i], ParseFilters(out.query.filters).obj)}

SumOfCounts(entries) == Sum([i \in DOMAIN entries |-> entries[i].count])

ProfileNames ==
    {db[i].salesperson_name :
        i \in {j \in DOMAIN db : SqlEq(db[j].salesperson_reg_num, out.regNum)}}

\* The three breakdowns of the profile each sum to agent.totalTransactions.
BreakdownsSumToTotal ==
    LET body == out.res.body
    IN  /\ SumOfCounts(body.propertyTypes) = body.agent.totalTransactions
        /\ SumOfCounts(body.transactionTypes) = body.agent.totalTransactions
        /\ SumOfCounts(body.representation) = body.agent.totalTransactions

\* The profile of an agent whose rows all carry one name.
SingleNameProfileSums ==
    (out.route = "agents/profile" /\ out.res.status = 200 /\ Cardinality(ProfileNames) = 1)
        => BreakdownsSumToTotal

\* C27: in an agent profile the counts of propertyTypes, of transactionTypes
\* and of representation each sum to agent.totalTransactions, also when the
\* agent's rows carry more than one salesperson_name.
C27_BreakdownsSumToTotal ==
    (out.route = "agents/profile" /\ out.res.status = 200) => BreakdownsSumToTotal

\* The profile of an agent with two names reports the transactions of one
\* name while its breakdowns count the rows of both.
C27_TwoNamesUndercounted ==
    /\ out.route = "agents/profile"
    /\ out.res.status = 200
    /\ Cardinality(ProfileNames) = 2
    /\ out.res.body.agent.totalTransactions = 1
    /\ SumOfCounts(out.res.body.propertyTypes) = 2

-----------------------------------------------------------------------------
(* fetchDataGovSG: one call with its options, against a datastore that     *)
(* answers each request with the records at the offset asked for, or fails *)

MaxRetriesOption == 3

MaxLimitOption == 2

MaxRecordsOption == 3

MaxStoreRecords == 4

\* options: maxRetries (also below 1), limit, maxRecords
FetchOptions ==
    [maxRetries : 0..MaxRetriesOption, limit : 1..MaxLimitOption,
     maxRecords : 0..MaxRecordsOption]

NoResponse == [defined |-> FALSE, success |-> FALSE, records |-> <<>>, total |-> 0]

\* datastore_search with limit and offset over a resource of total records,
\* numbered from 1: result.records and result.total.
DatastoreSearch(total, limit, offset) ==
    [defined |-> TRUE, success |-> TRUE,
     records |-> [i \in 1..Min(limit, Max(total - offset, 0)) |-> offset + i],
     total |-> total]

\* A response whose data.success is not true.
Unsuccessful == [defined |-> TRUE, success |-> FALSE, records |-> <<>>, total |-> 0]

\* Math.max(1, maxRetries)
NormalizedMaxRetries(maxRetries) == Max(1, maxRetries)

\* let allRecords = []; let offset = 0; let hasMore = true
FetchStart(options, total) ==
    [pc |-> "while", options |-> options, store |-> total,
     allRecords |-> <<>>, offset |-> 0, hasMore |-> TRUE,
     attempt |-> 0, success |-> FALSE, response |-> NoResponse,
     log |-> <<>>, batches |-> 0, failures |-> 0, outcome |-> "pending",
     returned |-> <<>>]

\* Variant of CatchAttempt that gives up quietly: the records collected so
\* far are returned.
CatchAttemptReturnsCollected(f) ==
    IF f.attempt < NormalizedMaxRetries(f.options.maxRetries)
    THEN [f EXCEPT !.pc = "delay"]
    ELSE [f EXCEPT !.pc = "done", !.outcome = "returned", !.returned = f.allRecords]

\* catch (error): wait and retry, or throw after the last attempt.
CatchAttempt(f) ==
    IF f.attempt < NormalizedMaxRetries(f.options.maxRetries)
    THEN [f EXCEPT !.pc = "delay"]
    ELSE [f EXCEPT !.pc = "done", !.outcome = "thrown"]

\* The statements after the retry loop: the batch is added to allRecords.
AddBatch(f) ==
    LET records == f.response.records
        allRecords == f.allRecords \o records
        offset == f.offset + Len(records)
    IN  [f EXCEPT !.pc = "while",
                  !.allRecords = allRecords,
                  !.offset = offset,
                  !.batches = @ + 1,
                  !.hasMore = /\ Len(records) = f.options.limit
                              /\ offset < f.response.total
                              /\ Len(allRecords) < f.options.maxRecords]

InitFetch ==
    /\ \E options \in FetchOptions, total \in 0..MaxStoreRecords :
            fetch = FetchStart(options, total)
    /\ hooks = [pc |-> "none"]
    /\ DataIdle
    /\ LruIdle
    /\ HttpIdle
    /\ AggIdle

\* while (hasMore && allRecords.length < maxRecords): a new batch, or return.
WhileMore ==
    /\ fetch.pc = "while"
    /\ fetch' = IF fetch.hasMore /\ Len(fetch.allRecords) < fetch.options.maxRecords
                THEN [fetch EXCEPT !.pc = "retry", !.attempt = 0, !.success = FALSE,
                                   !.response = NoResponse, !.log = <<>>]
                ELSE [fetch EXCEPT !.pc = "done", !.outcome = "returned",
                                   !.returned = fetch.allRecords]
    /\ UNCHANGED <<hooks, dataVars, lruVars, httpVars, aggVars>>

RetryEnabled ==
    /\ fetch.pc = "retry"
    /\ fetch.attempt < NormalizedMaxRetries(fetch.options.maxRetries)
    /\ ~fetch.success

\* An attempt that the datastore answers with success.
AttemptSucceeds ==
    /\ RetryEnabled
    /\ fetch' = [fetch EXCEPT !.attempt = @ + 1, !.success = TRUE,
                              !.response = DatastoreSearch(fetch.store, fetch.options.limit,
                                                           fetch.offset),
                              !.log = Append(@, "ok")]
    /\ UNCHANGED <<hooks, dataVars, lruVars, httpVars, aggVars>>

\* An attempt that fails: axios.get rejects (the response keeps its value),
\* or the response says success is not true.
AttemptFails ==
    /\ RetryEnabled
    /\ \E response \in {fetch.response, Unsuccessful} :
            fetch' = CatchAttempt([fetch EXCEPT !.attempt = @ + 1, !.response = response,
                                                !.log = Append(@, "fail"),
                                                !.failures = @ + 1])
    /\ UNCHANGED <<hooks, dataVars, lruVars, httpVars, aggVars>>

\* The delay before the next attempt has passed.
RetryDelayElapsed ==
    /\ fetch.pc = "delay"
    /\ fetch' = [fetch EXCEPT !.pc = "retry"]
    /\ UNCHANGED <<hooks, dataVars, lruVars, httpVars, aggVars>>

\* The retry loop is left: if (!response) throw, else the batch is added.
AfterRetries ==
    /\ fetch.pc = "retry"
    /\ ~RetryEnabled
    /\ fetch' = IF ~fetch.response.defined
                THEN [fetch EXCEPT !.pc = "done", !.outcome = "thrown"]
                ELSE AddBatch(fetch)
    /\ UNCHANGED <<hooks, dataVars, lruVars, httpVars, aggVars>>

NextFetch ==
    \/ WhileMore
    \/ AttemptSucceeds
    \/ AttemptFails
    \/ RetryDelayElapsed
    \/ AfterRetries

SpecFetch == InitFetch /\ [][NextFetch]_vars

-----------------------------------------------------------------------------
(* Properties of fetchDataGovSG *)

\* C28: a batch is attempted at most max(1, maxRetries) times; no attempt
\* follows a successful one of the same batch; and when the last allowed
\* attempt has failed the call throws and returns no records.
C28_BoundedRetriesThenThrow ==
    fetch.pc # "none" =>
        LET allowed == IF fetch.options.maxRetries > 1 THEN fetch.options.maxRetries ELSE 1
        IN  /\ Len(fetch.log) <= allowed
            /\ fetch.attempt = Len(fetch.log)
            /\ \A i \in DOMAIN fetch.log : fetch.log[i] = "ok" => i = Len(fetch.log)
            /\ (/\ Len(fetch.log) = allowed
                /\ fetch.log[allowed] = "fail")
                    => /\ fetch.pc = "done"
                       /\ fetch.outcome = "thrown"
                       /\ fetch.returned = <<>>
            /\ (fetch.outcome = "returned" /\ fetch.log # <<>>)
                    => fetch.log[Len(fetch.log)] = "ok"

\* The second batch failed on its last allowed attempt, after a first batch
\* had brought records and after a retry, and the call threw.
C28_Witness ==
    /\ fetch.pc = "done"
    /\ fetch.outcome = "thrown"
    /\ fetch.batches = 1
    /\ fetch.allRecords # <<>>
    /\ fetch.options.maxRetries = 2
    /\ fetch.log = <<"fail", "fail">>

\* C29: with limit >= 1, maxRecords >= 0 and a datastore that answers every
\* request with success, the array returned holds at most maxRecords records.
C29_AtMostMaxRecords ==
    (fetch.pc = "done" /\ fetch.outcome = "returned" /\ fetch.failures = 0)
        => Len(fetch.returned) <= fetch.options.maxRecords

\* Without a failed attempt the call has returned more records than
\* maxRecords: the last batch was added whole.
C29_MoreThanMaxRecords ==
    /\ fetch.pc = "done"
    /\ fetch.outcome = "returned"
    /\ fetch.options.limit = 2
    /\ fetch.options.maxRecords = 3
    /\ Len(fetch.returned) = 4
    /\ fetch.batches = 2
    /\ fetch.failures = 0

\* The array returned exceeds maxRecords by less than one batch.
ReturnedBelowMaxRecordsPlusLimit ==
    (fetch.pc = "done" /\ fetch.outcome = "returned")
        => \/ Len(fetch.returned) <= fetch.options.maxRecords
           \/ Len(fetch.returned) < fetch.options.maxRecords + fetch.options.limit

-----------------------------------------------------------------------------
(* frontend/src/hooks/useAnalytics.js: a component that uses one of the    *)
(* hooks, re-rendered with new arguments while its requests are in flight  *)

JsNull == [kind |-> "null"]

\* A hook argument is truthy unless it is null or the empty string.
JsTruthy(v) == v.kind # "null" /\ ~(v.kind = "str" /\ v.s = "")

HookNames == {"useMultiDimensionalAnalytics", "useTimeSeriesData", "useMarketInsights"}

HdbOnly == FiltersJson([k \in {"property_type"} |-> Array(<<"HDB">>)])

NoneSelected == FiltersJson([k \in {"property_type"} |-> Array(<<>>)])

\* The arguments a component passes to the hook.
HookArgs(hook) ==
    CASE hook = "useMultiDimensionalAnalytics" ->
            [datasetId : {Str(""), Str("cea")},
             dimension1 : {Str(""), Str("town"), Str("property_type")},
             dimension2 : {JsNull},
             filters : {JsNull, HdbOnly}]
      [] hook = "useTimeSeriesData" ->
            [datasetId : {Str(""), Str("cea")},
             period : {Str("month"), Str("year")},
             groupBy : {JsNull, Str("town")},
             filters : {JsNull}]
      [] hook = "useMarketInsights" ->
            [datasetId : {Str(""), Str("cea")},
             filters : {JsNull, HdbOnly, NoneSelected}]

\* if (!datasetId || !dimension1) / if (!datasetId): the effect asks nothing.
NothingToFetch(hook, args) ==
    \/ ~JsTruthy(args.datasetId)
    \/ hook = "useMultiDimensionalAnalytics" /\ ~JsTruthy(args.dimension1)

\* params.append(name, value) when the value is given.
Given(name, v) == IF JsTruthy(v) THEN <<Pair(name, v)>> ELSE <<>>

\* Object.keys(filters).some(k => filters[k]?.length > 0)
SomeSelected(filters) ==
    /\ filters.kind = "json"
    /\ \E k \in DOMAIN filters.obj :
            IF filters.obj[k].kind = "array"
            THEN Len(filters.obj[k].vals) > 0
            ELSE Len(filters.obj[k].val) > 0

\* The url the effect asks for.
HookUrl(hook, args) ==
    CASE hook = "useMultiDimensionalAnalytics" ->
            OriginalUrl(<<"api", "datasets", args.datasetId.s, "analytics">>,
                        <<Pair("dimension1", args.dimension1)>>
                            \o Given("dimension2", args.dimension2)
                            \o Given("filters", args.filters))
      [] hook = "useTimeSeriesData" ->
            OriginalUrl(<<"api", "datasets", args.datasetId.s, "timeseries">>,
                        <<Pair("period", args.period)>>
                            \o Given("groupBy", args.groupBy)
                            \o Given("filters", args.filters))
      [] hook = "useMarketInsights" ->
            OriginalUrl(<<"api", "datasets", args.datasetId.s, "insights">>,
                        IF SomeSelected(args.filters)
                        THEN <<Pair("filters", args.filters)>> ELSE <<>>)

NoData == [kind |-> "null", url |-> ""]

\* response.data of the server for a url: the same url, the same body.
ResponseData(url) == [kind |-> "data", url |-> url]

MaxRequests == 3

\* useState(null), useState(true), useState(null), before the first effect.
FirstRender(hook) ==
    [pc |-> "mounted", hook |-> hook, args |-> JsNull,
     data |-> NoData, loading |-> TRUE, error |-> FALSE,
     inFlight |-> {}, issued |-> 0, effects |-> 0, last |-> 0, settled |-> <<>>]

\* Variant of RunEffect whose requests that are still in flight are
\* abandoned when the effect runs again.
RunEffectAbandonsOlder(h, args) ==
    IF NothingToFetch(h.hook, args)
    THEN [h EXCEPT !.args = args, !.data = NoData, !.loading = FALSE,
                   !.effects = @ + 1, !.last = 0, !.inFlight = {}]
    ELSE [h EXCEPT !.args = args, !.loading = TRUE, !.error = FALSE,
                   !.effects = @ + 1, !.issued = @ + 1, !.last = h.issued + 1,
                   !.inFlight = {[seq |-> h.issued + 1, url |-> HookUrl(h.hook, args)]},
                   !.settled = Append(@, "pending")]

\* The effect of a render whose dependencies differ from the last ones:
\* nothing to fetch, or a request that joins the ones in flight.
RunEffect(h, args) ==
    IF NothingToFetch(h.hook, args)
    THEN [h EXCEPT !.args = args, !.data = NoData, !.loading = FALSE,
                   !.effects = @ + 1, !.last = 0]
    ELSE [h EXCEPT !.args = args, !.loading = TRUE, !.error = FALSE,
                   !.effects = @ + 1, !.issued = @ + 1, !.last = h.issued + 1,
                   !.inFlight = @ \cup {[seq |-> h.issued + 1,
                                         url |-> HookUrl(h.hook, args)]},
                   !.settled = Append(@, "pending")]

\* .then(response => { setData(response.data); setLoading(false) })
Then(h, r) ==
    [h EXCEPT !.data = ResponseData(r.url), !.loading = FALSE,
              !.inFlight = @ \ {r}, !.settled[r.seq] = "ok"]

\* .catch(err => { setError(err.message); setLoading(false) })
CatchRejected(h, r) ==
    [h EXCEPT !.error = TRUE, !.loading = FALSE,
              !.inFlight = @ \ {r}, !.settled[r.seq] = "failed"]

InitHooks ==
    /\ \E hook \in HookNames : \E args \in HookArgs(hook) :
            hooks = RunEffect(FirstRender(hook), args)
    /\ fetch = [pc |-> "none"]
    /\ DataIdle
    /\ LruIdle
    /\ HttpIdle
    /\ AggIdle

\* The component renders with other arguments: the dependency array differs.
Rerender ==
    /\ hooks.pc = "mounted"
    /\ hooks.effects < MaxRequests
    /\ \E args \in HookArgs(hooks.hook) :
            /\ args # hooks.args
            /\ hooks' = RunEffect(hooks, args)
    /\ UNCHANGED <<fetch, dataVars, lruVars, httpVars, aggVars>>

\* The response to one of the requests in flight arrives.
ResponseArrives ==
    /\ hooks.pc = "mounted"
    /\ \E r \in hooks.inFlight : hooks' = Then(hooks, r)
    /\ UNCHANGED <<fetch, dataVars, lruVars, httpVars, aggVars>>

\* One of the requests in flight fails.
RequestFails ==
    /\ hooks.pc = "mounted"
    /\ \E r \in hooks.inFlight : hooks' = CatchRejected(hooks, r)
    /\ UNCHANGED <<fetch, dataVars, lruVars, httpVars, aggVars>>

NextHooks == Rerender \/ ResponseArrives \/ RequestFails

SpecHooks == InitHooks /\ [][NextHooks]_vars

-----------------------------------------------------------------------------
(* Properties of the hooks *)

\* No request is in flight, the last effect asked for the current arguments
\* and its request was answered.
AllCompleted ==
    /\ hooks.pc = "mounted"
    /\ hooks.inFlight = {}
    /\ hooks.last # 0
    /\ hooks.settled[hooks.last] = "ok"

\* C30: once all requests of a hook have completed, in whatever order, its
\* data is the response to the request made for the latest arguments.
C30_DataIsLatestResponse ==
    AllCompleted => hooks.data = ResponseData(HookUrl(hooks.hook, hooks.args))

\* Two requests were answered, the older one last: the hook shows the
\* response to the older arguments.
C30_OlderResponseShown ==
    /\ AllCompleted
    /\ hooks.issued = 2
    /\ hooks.settled = <<"ok", "ok">>
    /\ hooks.data.kind = "data"
    /\ hooks.data.url # HookUrl(hooks.hook, hooks.args)
    /\ ~hooks.loading

=============================================================================
